---------------------------- MODULE Spec2Model ----------------------------
(***************************************************************************)
(* Model of the storage core of web3-storage/upload-api:                   *)
(*   - the allocation ledger   (src/upload-api/stores/allocations.js)      *)
(*   - the agent message index (src/upload-api/stores/agent/store.js)      *)
(* The DynamoDB table and the S3 buckets are modelled as the capability    *)
(* interfaces the code drives: single-item conditional put / delete, key   *)
(* ordered range query, object put / get / list by prefix.                 *)
(***************************************************************************)
EXTENDS Integers, Sequences, FiniteSets, TLC

(***************************************************************************)
(* Bounds of the model.                                                    *)
(***************************************************************************)
\* number of calls (insert, remove, exists, get) a behaviour may start
MaxCalls == 3
\* the wall clock runs from 0 to MaxTime
MaxTime == 1
\* number of concurrent callers of the ledger
NProcs == 2

Procs == 1..NProcs

None == [none |-> TRUE]

(***************************************************************************)
(* Values the callers pass in.                                             *)
(***************************************************************************)
Spaces == {"did:key:s1", "did:key:s2"}
\* multihash digests as byte sequences
Digests == {<<0>>, <<57>>, <<58>>}

(***************************************************************************)
(* multiformats: base58btc and Link                                        *)
(***************************************************************************)
\* the base58btc alphabet, as ASCII codes of
\* 123456789ABCDEFGHJKLMNPQRSTUVWXYZabcdefghijkmnopqrstuvwxyz
Alphabet ==
  << 49, 50, 51, 52, 53, 54, 55, 56, 57,
     65, 66, 67, 68, 69, 70, 71, 72, 74, 75, 76, 77, 78, 80, 81, 82, 83, 84,
     85, 86, 87, 88, 89, 90,
     97, 98, 99, 100, 101, 102, 103, 104, 105, 106, 107, 109, 110, 111, 112,
     113, 114, 115, 116, 117, 118, 119, 120, 121, 122 >>

\* the multibase prefix of base58btc, the character z
Prefix == <<Alphabet[Len(Alphabet)]>>

RECURSIVE BytesToNat(_)
BytesToNat(bytes) ==
  IF bytes = <<>> THEN 0
  ELSE BytesToNat(SubSeq(bytes, 1, Len(bytes) - 1)) * 256 + bytes[Len(bytes)]

RECURSIVE NatToDigits(_)
NatToDigits(n) ==
  IF n = 0 THEN <<>>
  ELSE Append(NatToDigits(n \div Len(Alphabet)), Alphabet[(n % Len(Alphabet)) + 1])

RECURSIVE LeadingCount(_, _)
LeadingCount(seq, x) ==
  IF seq # <<>> /\ Head(seq) = x THEN 1 + LeadingCount(Tail(seq), x) ELSE 0

\* base58btc.encode: prefix, one "1" per leading zero byte, then the digits
Base58btcEncode(bytes) ==
  Prefix \o [i \in 1..LeadingCount(bytes, 0) |-> Alphabet[1]] \o NatToDigits(BytesToNat(bytes))

DigitValue(c) == (CHOOSE i \in 1..Len(Alphabet) : Alphabet[i] = c) - 1

RECURSIVE DigitsToNat(_)
DigitsToNat(digits) ==
  IF digits = <<>> THEN 0
  ELSE DigitsToNat(SubSeq(digits, 1, Len(digits) - 1)) * Len(Alphabet)
         + DigitValue(digits[Len(digits)])

RECURSIVE NatToBytes(_)
NatToBytes(n) ==
  IF n = 0 THEN <<>> ELSE Append(NatToBytes(n \div 256), n % 256)

\* base58btc.decode: strip the prefix, one zero byte per leading "1"
Base58btcDecode(str) ==
  LET body == Tail(str)
  IN  [i \in 1..LeadingCount(body, Alphabet[1]) |-> 0] \o NatToBytes(DigitsToNat(body))

\* cause.toString()
LinkToString(link) == link.cid

\* Link.parse
LinkParse(str) == [cid |-> str]

\* new Date().toISOString(): a string that sorts as the instant does
ToISOString(t) == [iso |-> t]

(***************************************************************************)
(* @aws-sdk/util-dynamodb                                                  *)
(***************************************************************************)
NumberAttrs == {"size", "value"}

\* marshall: every attribute becomes a typed attribute value
Marshall(obj) ==
  [a \in DOMAIN obj |-> IF a \in NumberAttrs THEN [N |-> obj[a]] ELSE [S |-> obj[a]]]

\* unmarshall: the attribute values back to plain values
Unmarshall(item) ==
  [a \in DOMAIN item |-> IF "N" \in DOMAIN item[a] THEN item[a].N ELSE item[a].S]

\* lexicographic order of two strings given as sequences of character codes
RECURSIVE LexLess(_, _)
LexLess(a, b) ==
  IF b = <<>> THEN FALSE
  ELSE IF a = <<>> THEN TRUE
  ELSE IF Head(a) # Head(b) THEN Head(a) < Head(b)
  ELSE LexLess(Tail(a), Tail(b))


(***************************************************************************)
(* The DynamoDB table behind the ledger.  A table is a set of items, an    *)
(* item a record of attribute values; two items never share a primary key. *)
(***************************************************************************)
\* the primary key of the table: partition key space, sort key multihash
KeyAttrs == {"space", "multihash"}

KeyOf(item) == [a \in KeyAttrs |-> item[a]]

Lookup(tbl, key) ==
  IF \E i \in tbl : KeyOf(i) = key THEN CHOOSE i \in tbl : KeyOf(i) = key ELSE None

Project(item, attrs) == [a \in (DOMAIN item \cap attrs) |-> item[a]]

\* the items of a set ordered by sort key, ascending
RECURSIVE SortByKey(_)
SortByKey(items) ==
  IF items = {} THEN <<>>
  ELSE LET m == CHOOSE i \in items :
                  \A j \in items \ {i} : LexLess(i.multihash.S, j.multihash.S)
       IN  <<m>> \o SortByKey(items \ {m})

Reverse(seq) == [i \in 1..Len(seq) |-> seq[Len(seq) + 1 - i]]

Take(seq, n) == SubSeq(seq, 1, IF n < Len(seq) THEN n ELSE Len(seq))

\* a failure of the service that is neither absence nor a failed condition
Unavailable == "InternalServerError"

\* the error field of a response that carries none
NoError == ""

NoResponse(tbl, name) == [table |-> tbl, error |-> name]

DynamoGetItem(tbl, cmd) ==
  LET item == Lookup(tbl, cmd.Key)
  IN  [table |-> tbl, error |-> NoError,
       Item |-> IF item = None THEN None
                ELSE IF cmd.AttributesToGet = {} THEN item
                ELSE Project(item, cmd.AttributesToGet)]

\* the two condition expressions the ledger uses, evaluated on the stored item
ConditionHolds(expr, old) ==
  CASE expr = "attribute_not_exists(#S) AND attribute_not_exists(#M)" -> old = None
    [] expr = "attribute_exists(#S) AND attribute_exists(#M)" -> old # None
    [] OTHER -> TRUE

DynamoPutItem(tbl, cmd) ==
  LET old == Lookup(tbl, KeyOf(cmd.Item))
  IN  IF ~ConditionHolds(cmd.ConditionExpression, old)
      THEN NoResponse(tbl, "ConditionalCheckFailedException")
      ELSE [table |-> (tbl \ {old}) \cup {cmd.Item}, error |-> NoError]

\* lossy is a response that lost its Attributes
DynamoDeleteItem(tbl, cmd, lossy) ==
  LET old == Lookup(tbl, cmd.Key)
  IN  IF ~ConditionHolds(cmd.ConditionExpression, old)
      THEN NoResponse(tbl, "ConditionalCheckFailedException")
      ELSE [table |-> tbl \ {old}, error |-> NoError,
            Attributes |-> IF cmd.ReturnValues = "ALL_OLD" /\ ~lossy THEN old ELSE None]

\* Query of the primary index: the partition in sort key order, from after
\* ExclusiveStartKey, at most Limit items; LastEvaluatedKey when Limit stopped it
DynamoQuery(tbl, cmd) ==
  LET start == cmd.ExclusiveStartKey
      part == {i \in tbl : i.space = cmd.KeyConditions.space.AttributeValueList[1]}
      asc == SortByKey(part)
      ordered == IF cmd.ScanIndexForward THEN asc ELSE Reverse(asc)
      rest == IF start = None THEN ordered
              ELSE SelectSeq(ordered,
                     LAMBDA i : IF cmd.ScanIndexForward
                                THEN LexLess(start.multihash.S, i.multihash.S)
                                ELSE LexLess(i.multihash.S, start.multihash.S))
      page == Take(rest, cmd.Limit)
  IN  IF start # None /\ DOMAIN start # KeyAttrs
      THEN NoResponse(tbl, "ValidationException")
      ELSE [table |-> tbl, error |-> NoError,
            Items |-> [n \in 1..Len(page) |-> Project(page[n], cmd.AttributesToGet)],
            LastEvaluatedKey |-> IF Len(rest) >= cmd.Limit /\ page # <<>>
                                 THEN KeyOf(page[Len(page)]) ELSE None]

\* dynamoDb.send(cmd); outcome is what the service does with this request
DynamoSend(tbl, cmd, outcome) ==
  IF outcome = "fail" THEN NoResponse(tbl, Unavailable)
  ELSE CASE cmd.type = "GetItem" -> DynamoGetItem(tbl, cmd)
         [] cmd.type = "PutItem" -> DynamoPutItem(tbl, cmd)
         [] cmd.type = "DeleteItem" -> DynamoDeleteItem(tbl, cmd, outcome = "noattrs")
         [] cmd.type = "Query" -> DynamoQuery(tbl, cmd)

(***************************************************************************)
(* useAllocationsStorage                                                   *)
(***************************************************************************)
Ok(value) == [tag |-> "ok", ok |-> value]
Error(name) == [tag |-> "error", error |-> name]
\* an exception that leaves the operation instead of a result
Throw(name) == [tag |-> "throw", name |-> name]

getKey(space, blobMultihash) ==
  Marshall([space |-> space, multihash |-> Base58btcEncode(blobMultihash)])

ExistsCommand(space, blobMultihash) ==
  [type |-> "GetItem", Key |-> getKey(space, blobMultihash), AttributesToGet |-> {"space"}]

\* exists that takes the response for the item
existsOfResponse(tbl, space, blobMultihash, outcome) ==
  LET response == DynamoSend(tbl, ExistsCommand(space, blobMultihash), outcome)
  IN  IF response.error # NoError THEN Ok(FALSE) ELSE Ok(response # None)

exists(tbl, space, blobMultihash, outcome) ==
  LET response == DynamoSend(tbl, ExistsCommand(space, blobMultihash), outcome)
  IN  IF response.error # NoError THEN Ok(FALSE) ELSE Ok(response.Item # None)

GetCommand(space, blobMultihash) ==
  [type |-> "GetItem", Key |-> getKey(space, blobMultihash), AttributesToGet |-> {}]

\* get that hands back the stored key string for the digest
GetOkEncoded(raw) ==
  Ok([blob |-> [digest |-> raw.multihash, size |-> raw.size],
      cause |-> LinkParse(raw.cause)])

GetOk(raw) ==
  Ok([blob |-> [digest |-> Base58btcDecode(raw.multihash), size |-> raw.size],
      cause |-> LinkParse(raw.cause)])

get(tbl, space, blobMultihash, outcome) ==
  LET response == DynamoSend(tbl, GetCommand(space, blobMultihash), outcome)
  IN  IF response.error # NoError THEN Throw(response.error)
      ELSE IF response.Item = None THEN Error("RecordNotFound")
      ELSE GetOk(Unmarshall(response.Item))

\* the item insert writes; insertedAt is read from the clock before the send
InsertItem(input, t) ==
  [space |-> input.space,
   multihash |-> Base58btcEncode(input.blob.digest),
   size |-> input.blob.size,
   cause |-> LinkToString(input.cause),
   insertedAt |-> ToISOString(t)]

\* insert that sends the put without its condition
InsertCommandUnconditional(item) ==
  [type |-> "PutItem", Item |-> Marshall(item), ConditionExpression |-> ""]

InsertCommand(item) ==
  [type |-> "PutItem", Item |-> Marshall(item),
   ConditionExpression |-> "attribute_not_exists(#S) AND attribute_not_exists(#M)"]

\* insert that takes the failed condition for success
InsertResultSwallowed(input, response) ==
  IF response.error = "ConditionalCheckFailedException" THEN Ok([blob |-> input.blob])
  ELSE IF response.error # NoError THEN Throw(response.error)
  ELSE Ok([blob |-> input.blob])

InsertResult(input, response) ==
  IF response.error = "ConditionalCheckFailedException" THEN Error("RecordKeyConflict")
  ELSE IF response.error # NoError THEN Throw(response.error)
  ELSE Ok([blob |-> input.blob])

\* remove that sends the delete without its condition
RemoveCommandUnconditional(space, blobMultihash) ==
  [type |-> "DeleteItem", Key |-> getKey(space, blobMultihash),
   ConditionExpression |-> "", ReturnValues |-> "ALL_OLD"]

RemoveCommand(space, blobMultihash) ==
  [type |-> "DeleteItem", Key |-> getKey(space, blobMultihash),
   ConditionExpression |-> "attribute_exists(#S) AND attribute_exists(#M)",
   ReturnValues |-> "ALL_OLD"]

\* remove that reports no size for the record it deleted
RemoveOkZero(raw) == Ok([size |-> 0])

RemoveOk(raw) == Ok([size |-> raw.size])

\* remove that reports every exception as a failure
RemoveCatchAll(name) == Error("StorageOperationFailed")

RemoveCatch(name) ==
  IF name = "ConditionalCheckFailedException" THEN Ok([size |-> 0])
  ELSE Error("StorageOperationFailed")

\* remove that takes a response without the old record for no record
RemoveResultNoRecord(response) ==
  IF response.error # NoError THEN RemoveCatch(response.error)
  ELSE IF response.Attributes = None THEN Ok([size |-> 0])
  ELSE RemoveOk(Unmarshall(response.Attributes))

RemoveResult(response) ==
  IF response.error # NoError THEN RemoveCatch(response.error)
  ELSE IF response.Attributes = None THEN RemoveCatch("Error")
  ELSE RemoveOk(Unmarshall(response.Attributes))


\* an absent string (undefined cursor, before, after); falsy like the empty string
Undefined == <<>>

\* the page size when options.size is absent or 0
DefaultListSize == 20

\* list that asks for the default page whatever the options
ListCommandDefaultLimit(space, options) ==
  [type |-> "Query",
   Limit |-> DefaultListSize,
   KeyConditions |->
     [space |-> [ComparisonOperator |-> "EQ", AttributeValueList |-> <<[S |-> space]>>]],
   ScanIndexForward |-> ~options.pre,
   ExclusiveStartKey |->
     IF options.cursor # Undefined
     THEN Marshall([space |-> space, link |-> options.cursor])
     ELSE None,
   AttributesToGet |-> {"multihash", "size", "insertedAt"}]

\* list options: cursor (Undefined when absent), size (0 when absent), pre
ListCommand(space, options) ==
  [type |-> "Query",
   Limit |-> IF options.size # 0 THEN options.size ELSE DefaultListSize,
   KeyConditions |->
     [space |-> [ComparisonOperator |-> "EQ", AttributeValueList |-> <<[S |-> space]>>]],
   ScanIndexForward |-> ~options.pre,
   ExclusiveStartKey |->
     IF options.cursor # Undefined
     THEN Marshall([space |-> space, link |-> options.cursor])
     ELSE None,
   AttributesToGet |-> {"multihash", "size", "insertedAt"}]

toBlobListResult(raw) ==
  [blob |-> [digest |-> Base58btcDecode(raw.multihash), size |-> raw.size],
   insertedAt |-> raw.insertedAt]

\* list that leaves a backward page in the order the query returned it
ListResultsAsQueried(results, pre) == results

ListResults(results, pre) == IF pre THEN Reverse(results) ELSE results

ListBefore(pre, firstLinkCID, lastLinkCID) == IF pre THEN lastLinkCID ELSE firstLinkCID

\* list that takes the last evaluated key for after in both directions
ListAfterLastKey(pre, firstLinkCID, lastLinkCID) == lastLinkCID

ListAfter(pre, firstLinkCID, lastLinkCID) == IF pre THEN firstLinkCID ELSE lastLinkCID

ListOk(response, pre) ==
  LET results == [n \in 1..Len(response.Items) |->
                    toBlobListResult(Unmarshall(response.Items[n]))]
      firstLinkCID == IF results # <<>> THEN Base58btcEncode(results[1].blob.digest)
                      ELSE Undefined
      lastKey == response.LastEvaluatedKey
      lastLinkCID == IF lastKey # None THEN Unmarshall(lastKey).multihash ELSE Undefined
      before == ListBefore(pre, firstLinkCID, lastLinkCID)
      after == ListAfter(pre, firstLinkCID, lastLinkCID)
  IN  Ok([size |-> Len(results), before |-> before, after |-> after, cursor |-> after,
          results |-> ListResults(results, pre)])

list(tbl, space, options, outcome) ==
  LET response == DynamoSend(tbl, ListCommand(space, options), outcome)
  IN  IF response.error # NoError THEN Throw(response.error)
      ELSE ListOk(response, options.pre)

(***************************************************************************)
(* tables/space-metrics.js                                                 *)
(***************************************************************************)
\* the primary key of the space metrics table
MetricsKeyAttrs == {"consumer", "name"}

\* GetItem on the space metrics table
MetricsGetItem(tbl, cmd) ==
  LET found == {i \in tbl : [a \in MetricsKeyAttrs |-> i[a]] = cmd.Key}
  IN  [error |-> NoError,
       Item |-> IF found = {} THEN None
                ELSE Project(CHOOSE i \in found : TRUE, cmd.AttributesToGet)]

\* the counter getAllocated reads
AddSizeTotal == "store/add-size-total"

\* getAllocated that reads the first counter of the consumer
getAllocatedOfAnyName(tbl, consumer, outcome) ==
  LET found == {i \in tbl : i.consumer.S = consumer}
  IN  IF outcome = "fail" THEN Throw(Unavailable)
      ELSE IF found # {} THEN Ok(Unmarshall(CHOOSE i \in found : TRUE).value)
      ELSE Ok(0)

\* the value getAllocated returns, or the exception of the send
getAllocated(tbl, consumer, outcome) ==
  LET cmd == [type |-> "GetItem",
              Key |-> Marshall([consumer |-> consumer, name |-> AddSizeTotal]),
              AttributesToGet |-> {"value"}]
      response == IF outcome = "fail" THEN [error |-> Unavailable]
                  ELSE MetricsGetItem(tbl, cmd)
  IN  IF response.error # NoError THEN Throw(response.error)
      ELSE IF response.Item # None THEN Ok(Unmarshall(response.Item).value)
      ELSE Ok(0)

(***************************************************************************)
(* Strings of the agent message index.  A string is the sequence of its    *)
(* characters, so that keys are built and taken apart as the code does.    *)
(***************************************************************************)
\* the characters of the model's keys, in code point order
CharOrder ==
  << ".", "/", "0", "1", "2", "3", "4", "5", "6", "7", "8", "9", "@",
     "a", "b", "c", "d", "e", "f", "g", "h", "i", "j", "k", "l", "m",
     "n", "o", "p", "q", "r", "s", "t", "u", "v", "w", "x", "y", "z" >>

CharCode(c) == CHOOSE i \in 1..Len(CharOrder) : CharOrder[i] = c

\* the order S3 lists keys in
RECURSIVE StrLess(_, _)
StrLess(a, b) ==
  IF b = <<>> THEN FALSE
  ELSE IF a = <<>> THEN TRUE
  ELSE IF Head(a) # Head(b) THEN CharCode(Head(a)) < CharCode(Head(b))
  ELSE StrLess(Tail(a), Tail(b))

\* String.prototype.indexOf of a character: 0-based, -1 when absent
IndexOf(str, c) ==
  IF \E i \in 1..Len(str) : str[i] = c
  THEN (CHOOSE i \in 1..Len(str) : str[i] = c /\ \A j \in 1..(i - 1) : str[j] # c) - 1
  ELSE -1

\* String.prototype.slice(from, to): 0-based, to excluded, a negative index
\* counted from the end
Slice(str, from, to) ==
  LET norm(i) == IF i < 0 THEN (IF Len(str) + i < 0 THEN 0 ELSE Len(str) + i)
                 ELSE IF i > Len(str) THEN Len(str) ELSE i
  IN  SubSeq(str, norm(from) + 1, norm(to))

StartsWith(str, prefix) ==
  Len(prefix) <= Len(str) /\ SubSeq(str, 1, Len(prefix)) = prefix

EndsWith(str, suffix) ==
  Len(suffix) <= Len(str)
    /\ SubSeq(str, Len(str) - Len(suffix) + 1, Len(str)) = suffix

(***************************************************************************)
(* The S3 buckets behind the agent store: a set of objects, no two with    *)
(* the same bucket and key.                                                *)
(***************************************************************************)
S3Lookup(objects, bucket, key) ==
  IF \E o \in objects : o.Bucket = bucket /\ o.Key = key
  THEN CHOOSE o \in objects : o.Bucket = bucket /\ o.Key = key
  ELSE None

S3PutObject(objects, cmd) ==
  {o \in objects : ~(o.Bucket = cmd.Bucket /\ o.Key = cmd.Key)} \cup
    {[Bucket |-> cmd.Bucket, Key |-> cmd.Key, Body |-> cmd.Body]}

\* a response of the service: the error it threw with its http status, or
\* the fields of the output
S3Error(name, status) == [error |-> name, status |-> status]

\* outcome "nobody": the output came without a Body
S3GetObject(objects, cmd, outcome) ==
  LET o == S3Lookup(objects, cmd.Bucket, cmd.Key)
  IN  IF outcome = "fail" THEN S3Error("InternalError", 500)
      ELSE IF o = None THEN S3Error("NoSuchKey", 404)
      ELSE [error |-> NoError, status |-> 200,
            Body |-> IF outcome = "nobody" THEN None ELSE o.Body]

RECURSIVE SortKeys(_)
SortKeys(keys) ==
  IF keys = {} THEN <<>>
  ELSE LET m == CHOOSE k \in keys : \A j \in keys \ {k} : StrLess(k, j)
       IN  <<m>> \o SortKeys(keys \ {m})

\* outcome "404": the service does not know the bucket
S3ListObjectsV2(objects, cmd, outcome) ==
  LET keys == {o.Key : o \in {x \in objects : x.Bucket = cmd.Bucket
                                               /\ StartsWith(x.Key, cmd.Prefix)}}
  IN  IF outcome = "fail" THEN S3Error("InternalError", 500)
      ELSE IF outcome = "404" THEN S3Error("NoSuchBucket", 404)
      ELSE [error |-> NoError, status |-> 200, Contents |-> SortKeys(keys)]

(***************************************************************************)
(* Agent messages                                                          *)
(***************************************************************************)
\* CAR.codec.contentType
CarContentType == "application/vnd.ipld.car"

T1 == <<"t", "1">>
T2 == <<"t", "2">>
T3 == <<"t", "3">>
I1 == <<"i", "1">>
I2 == <<"i", "2">>
R1 == <<"r", "1">>
M1 == <<"m", "1">>
M2 == <<"m", "2">>
\* a message of the time when a task and its invocation were the same link
I0 == <<"i", "0">>
R0 == <<"r", "0">>
M0 == <<"m", "0">>
\* a message that carries only the receipt of task t2
R2 == <<"r", "2">>
M3 == <<"m", "3">>
\* a legacy message that carries only the receipt of invocation i9
I9 == <<"i", "9">>
R9 == <<"r", "9">>
M9 == <<"m", "9">>

\* the texts parseLink takes for a link
LinkTexts == {T1, T2, T3, I0, I1, I2, I9, R0, R1, R2, R9, M0, M1, M2, M3, M9}

\* the blocks of a message: its root, its invocations and its receipts
BlocksOf(data) ==
  {[cid |-> data.root.cid, is |-> "message"]}
    \cup {[cid |-> i.cid, is |-> "invocation", task |-> i.task] : i \in data.invocations}
    \cup {[cid |-> r.cid, is |-> "receipt", task |-> r.task] : r \in data.receipts}

\* an encoding of a message: the bytes, as what decoding them yields
Encoded(contentType, data, by) ==
  [contentType |-> contentType, root |-> data.root.cid, blocks |-> BlocksOf(data),
   by |-> by]

\* the index of a message: one entry per invocation, one per receipt
MessageIndex(data) ==
  LET inv == SortKeys({i.cid : i \in data.invocations})
      rcp == SortKeys({r.cid : r \in data.receipts})
      taskOf(set, cid) == (CHOOSE x \in set : x.cid = cid).task
  IN  [n \in 1..Len(inv) |->
         [invocation |-> [task |-> taskOf(data.invocations, inv[n]),
                          invocation |-> inv[n], message |-> data.root.cid],
          receipt |-> None]]
      \o
      [n \in 1..Len(rcp) |->
         [invocation |-> None,
          receipt |-> [task |-> taskOf(data.receipts, rcp[n]),
                       receipt |-> rcp[n], message |-> data.root.cid]]]

ParsedAgentMessage(contentType, data) ==
  [source |-> [headers |-> [contentType |-> contentType],
               body |-> Encoded(contentType, data, "source")],
   data |-> data,
   index |-> MessageIndex(data)]

\* the messages the agents send: one with the invocation and the receipt of
\* task t1 that arrived as a CAR, one with an invocation of task t2 that
\* arrived in another encoding, one with only the receipt of task t2
AgentMessages ==
  { ParsedAgentMessage(CarContentType,
      [root |-> [cid |-> M1],
       invocations |-> {[cid |-> I1, task |-> T1]},
       receipts |-> {[cid |-> R1, task |-> T1]}]),
    ParsedAgentMessage("application/car",
      [root |-> [cid |-> M2],
       invocations |-> {[cid |-> I2, task |-> T2]},
       receipts |-> {}]),
    ParsedAgentMessage(CarContentType,
      [root |-> [cid |-> M3],
       invocations |-> {},
       receipts |-> {[cid |-> R2, task |-> T2]}]) }

\* the tasks looked up: t3 is in no message, i0 and i9 are in the legacy ones
LookupTasks == {T1, T2, T3, I0, I9}

\* open: a store with an index bucket and a message bucket
AgentStore ==
  [buckets |-> [index |-> [name |-> "invocation-store"],
                message |-> [name |-> "workflow-store"]]]

\* open, when the options name one bucket for both
AgentStoreOneBucket ==
  [buckets |-> [index |-> [name |-> "agent-store"],
                message |-> [name |-> "agent-store"]]]

AgentStores == {AgentStore, AgentStoreOneBucket}

\* what the store holds of a message written under the legacy layout: the
\* archive and the pseudo symlinks invocation/message.in and .out
LegacyObjects(connection) ==
  LET data == [root |-> [cid |-> M0],
               invocations |-> {[cid |-> I0, task |-> I0]},
               receipts |-> {[cid |-> R0, task |-> I0]}]
  IN  { [Bucket |-> connection.buckets.message.name, Key |-> M0 \o <<"/">> \o M0,
         Body |-> Encoded(CarContentType, data, "source")],
        [Bucket |-> connection.buckets.index.name,
         Key |-> I0 \o <<"/">> \o M0 \o <<".", "i", "n">>, Body |-> None],
        [Bucket |-> connection.buckets.index.name,
         Key |-> I0 \o <<"/">> \o M0 \o <<".", "o", "u", "t">>, Body |-> None] }

\* what the store holds of a legacy message that carried only a receipt:
\* the archive and the pseudo symlink invocation/message.out
LegacyReceiptObjects(connection) ==
  LET data == [root |-> [cid |-> M9],
               invocations |-> {},
               receipts |-> {[cid |-> R9, task |-> I9]}]
  IN  { [Bucket |-> connection.buckets.message.name, Key |-> M9 \o <<"/">> \o M9,
         Body |-> Encoded(CarContentType, data, "source")],
        [Bucket |-> connection.buckets.index.name,
         Key |-> I9 \o <<"/">> \o M9 \o <<".", "o", "u", "t">>, Body |-> None] }

(***************************************************************************)
(* stores/agent/store.js                                                   *)
(***************************************************************************)
\* CAR.response.encode(message.data)
CarResponseEncode(data) == [body |-> Encoded(CarContentType, data, "encode")]

\* assert that yields the archive and forgets the index
assertArchiveOnly(store, message) ==
  LET id == message.data.root.cid
  IN  <<[type |-> "PutObject", Bucket |-> store.buckets.message.name,
         Key |-> id \o <<"/">> \o id,
         Body |-> IF message.source.headers.contentType = CarContentType
                  THEN message.source.body
                  ELSE CarResponseEncode(message.data).body]>>

\* assert that encodes every message anew
assertReencoded(store, message) ==
  LET id == message.data.root.cid
      body == CarResponseEncode(message.data).body
      archive == [type |-> "PutObject", Bucket |-> store.buckets.message.name,
                  Key |-> id \o <<"/">> \o id, Body |-> body]
      links(entry) ==
        (IF entry.invocation # None
         THEN <<[type |-> "PutObject", Bucket |-> store.buckets.index.name,
                 Key |-> entry.invocation.task \o <<"/">> \o entry.invocation.invocation
                           \o <<"@">> \o entry.invocation.message \o <<".", "i", "n">>,
                 Body |-> None]>>
         ELSE <<>>)
        \o
        (IF entry.receipt # None
         THEN <<[type |-> "PutObject", Bucket |-> store.buckets.index.name,
                 Key |-> entry.receipt.task \o <<"/">> \o entry.receipt.receipt
                           \o <<"@">> \o entry.receipt.message \o <<".", "o", "u", "t">>,
                 Body |-> None]>>
         ELSE <<>>)
      RECURSIVE all(_)
      all(index) == IF index = <<>> THEN <<>> ELSE links(Head(index)) \o all(Tail(index))
  IN  <<archive>> \o all(message.index)

\* assert that leaves the direction out of the keys of the pseudo symlinks
assertNoSuffix(store, message) ==
  LET id == message.data.root.cid
      body == IF message.source.headers.contentType = CarContentType
              THEN message.source.body
              ELSE CarResponseEncode(message.data).body
      archive == [type |-> "PutObject", Bucket |-> store.buckets.message.name,
                  Key |-> id \o <<"/">> \o id, Body |-> body]
      links(entry) ==
        (IF entry.invocation # None
         THEN <<[type |-> "PutObject", Bucket |-> store.buckets.index.name,
                 Key |-> entry.invocation.task \o <<"/">> \o entry.invocation.message,
                 Body |-> None]>>
         ELSE <<>>)
        \o
        (IF entry.receipt # None
         THEN <<[type |-> "PutObject", Bucket |-> store.buckets.index.name,
                 Key |-> entry.receipt.task \o <<"/">> \o entry.receipt.message,
                 Body |-> None]>>
         ELSE <<>>)
      RECURSIVE all(_)
      all(index) == IF index = <<>> THEN <<>> ELSE links(Head(index)) \o all(Tail(index))
  IN  <<archive>> \o all(message.index)

\* the put commands of a message, in the order assert yields them
assert(store, message) ==
  LET id == message.data.root.cid
      body == IF message.source.headers.contentType = CarContentType
              THEN message.source.body
              ELSE CarResponseEncode(message.data).body
      archive == [type |-> "PutObject", Bucket |-> store.buckets.message.name,
                  Key |-> id \o <<"/">> \o id, Body |-> body]
      links(entry) ==
        (IF entry.invocation # None
         THEN <<[type |-> "PutObject", Bucket |-> store.buckets.index.name,
                 Key |-> entry.invocation.task \o <<"/">> \o entry.invocation.invocation
                           \o <<"@">> \o entry.invocation.message \o <<".", "i", "n">>,
                 Body |-> None]>>
         ELSE <<>>)
        \o
        (IF entry.receipt # None
         THEN <<[type |-> "PutObject", Bucket |-> store.buckets.index.name,
                 Key |-> entry.receipt.task \o <<"/">> \o entry.receipt.receipt
                           \o <<"@">> \o entry.receipt.message \o <<".", "o", "u", "t">>,
                 Body |-> None]>>
         ELSE <<>>)
      RECURSIVE all(_)
      all(index) == IF index = <<>> THEN <<>> ELSE links(Head(index)) \o all(Tail(index))
  IN  <<archive>> \o all(message.index)

\* an index entry {root?, at}; root is undefined when the path encodes none
toIndexEntry(path) ==
  LET start == IndexOf(path, "/")
      offset == IndexOf(path, "@")
  IN  IF offset > 0
      THEN [root |-> Slice(path, start, offset),
            at |-> Slice(path, offset + 1, IndexOf(path, "."))]
      ELSE [root |-> Undefined, at |-> Slice(path, start + 1, IndexOf(path, "."))]

\* list of the agent store: the keys under prefix that end with suffix
listEntries(objects, connection, prefix, suffix, outcome) ==
  LET response == S3ListObjectsV2(objects,
                    [type |-> "ListObjectsV2", Bucket |-> connection.buckets.index.name,
                     Prefix |-> prefix], outcome)
      entries == SelectSeq(response.Contents, LAMBDA key : EndsWith(key, suffix))
  IN  IF response.error # NoError
      THEN IF response.status = 404 THEN Error("RecordNotFound")
           ELSE Error("StorageOperationFailed")
      ELSE IF Len(entries) > 0 THEN Ok(entries) ELSE Error("RecordNotFound")

\* the bucket read looks the archive up in
ReadBucket(buckets) == buckets.index.name

\* read that takes every failure of the backend for absence
readAllNotFound(objects, connection, at, outcome) ==
  LET res == S3GetObject(objects,
               [type |-> "GetObject", Bucket |-> ReadBucket(connection.buckets),
                Key |-> at \o <<"/">> \o at], outcome)
  IN  IF res.error # NoError THEN Error("RecordNotFound")
      ELSE IF res.Body = None THEN Error("RecordNotFound")
      ELSE Ok(res.Body)

read(objects, connection, at, outcome) ==
  LET res == S3GetObject(objects,
               [type |-> "GetObject", Bucket |-> ReadBucket(connection.buckets),
                Key |-> at \o <<"/">> \o at], outcome)
  IN  IF res.error # NoError
      THEN IF res.status = 404 THEN Error("RecordNotFound")
           ELSE Error("StorageOperationFailed")
      ELSE IF res.Body = None THEN Error("RecordNotFound")
      ELSE Ok(res.Body)

\* the prefix and the suffix of a query: .in for an invocation, .out for a receipt
QueryKeys(query) ==
  IF query.invocation # None
  THEN <<query.invocation \o <<"/">>, <<".", "i", "n">>>>
  ELSE <<query.receipt \o <<"/">>, <<".", "o", "u", "t">>>>

\* resolve that keeps the first entry whatever follows
FirstWithRootNever(rest, head) == head

RECURSIVE FirstWithRoot(_, _)
FirstWithRoot(rest, head) ==
  IF rest = <<>> THEN head
  ELSE IF toIndexEntry(Head(rest)).root # Undefined THEN toIndexEntry(Head(rest))
  ELSE FirstWithRoot(Tail(rest), head)

resolve(objects, store, query, outcome) ==
  LET entries == listEntries(objects, store, QueryKeys(query)[1], QueryKeys(query)[2], outcome)
      head == toIndexEntry(Head(entries.ok))
  IN  IF entries.tag = "error" THEN entries
      ELSE IF head.root # Undefined THEN Ok(head)
      ELSE Ok(FirstWithRoot(Tail(entries.ok), head))

\* parseLink: a link of a text that is one, an exception otherwise
parseLink(text) == IF text \in LinkTexts THEN Ok(text) ELSE Throw("SyntaxError")

\* CAR.codec.decode: the roots and blocks of a CAR
CarDecode(bytes) ==
  IF bytes.contentType = CarContentType
  THEN Ok([roots |-> <<bytes.root>>, blocks |-> bytes.blocks, of |-> bytes.root])
  ELSE Throw("DecodeError")

\* Invocation.view and Receipt.view with fallback null: the view of the DAG
\* under root when the blocks hold it
View(root, archive) ==
  IF \E b \in archive.blocks : b.cid = root
  THEN [root |-> root, block |-> CHOOSE b \in archive.blocks : b.cid = root,
        archive |-> archive.of]
  ELSE None

\* load, after resolve returned index and read returned bytes
Loaded(index, bytes) ==
  LET archive == CarDecode(bytes)
      root == IF index.root # Undefined THEN parseLink(index.root) ELSE Ok(Undefined)
  IN  IF archive.tag = "throw" THEN archive
      ELSE IF root.tag = "throw" THEN root
      ELSE Ok([archive |-> archive.ok, root |-> root.ok])

\* getInvocation, after load returned result
InvocationOf(task, result) ==
  LET invocation == IF result.ok.root # Undefined THEN result.ok.root ELSE task
      view == View(invocation, result.ok.archive)
  IN  IF result.tag # "ok" THEN result
      ELSE IF view # None THEN Ok(view) ELSE Error("RecordNotFound")

\* CAR.request.decode(...).receipts.get(task): the receipt of the message
\* that ran task
MessageReceipt(body, task) ==
  IF \E b \in body.blocks : b.is = "receipt" /\ b.task = task
  THEN [root |-> (CHOOSE b \in body.blocks : b.is = "receipt" /\ b.task = task).cid,
        block |-> CHOOSE b \in body.blocks : b.is = "receipt" /\ b.task = task,
        archive |-> body.root]
  ELSE None

\* getReceipt, after resolve returned entry and read returned body
ReceiptOf(task, entry, body) ==
  IF entry.root # Undefined
  THEN LET archive == CarDecode(body)
           root == parseLink(entry.root)
       IN  IF archive.tag = "throw" THEN archive
           ELSE IF root.tag = "throw" THEN root
           ELSE IF View(root.ok, archive.ok) # None THEN Ok(View(root.ok, archive.ok))
           ELSE Error("RecordNotFound")
  ELSE IF MessageReceipt(body, task) # None THEN Ok(MessageReceipt(body, task))
       ELSE Error("RecordNotFound")


(***************************************************************************)
(* The ledger as a state machine: NProcs callers, each with at most one    *)
(* write call in flight, and a clock.                                      *)
(***************************************************************************)
VARIABLES
  table,     \* the DynamoDB table: a set of items
  now,       \* the wall clock
  pc,        \* per caller: "idle", or "sent" with a write call in flight
  req,       \* per caller: the call in flight
  calls,     \* number of write calls started
  last,      \* the call that returned last, with its result
  \* history of the calls, kept to state the properties
  granted,   \* per key: the input and the time of the insert that returned ok
             \* and whose record no remove has deleted since, else None
  epochOk,   \* per key: inserts that returned ok since the last deletion
  allocated, \* per key: sum of the sizes of the inserts that returned ok
  released   \* per key: sum of the sizes the removes returned

ledgerVars == <<table, now, pc, req, calls, last, granted, epochOk, allocated, released>>

\* the agent store
VARIABLES
  store,     \* the store open returned: its buckets
  objects,   \* the S3 objects: records Bucket, Key, Body
  wr,        \* the write under way: its commands and those still in flight
  writes,    \* number of writes started
  lk,        \* the lookup under way: getInvocation or getReceipt of a task
  stored     \* history: the root ids of the messages whose write returned ok

agentVars == <<store, objects, wr, writes, lk, stored>>

\* the redirect handler
VARIABLES
  bucket,    \* the identifiers whose content the bucket holds
  rawKeys,   \* the objects the signer finds: records Bucket, Key
  rq         \* the request under way: where the handler is, and its response

redirectVars == <<bucket, rawKeys, rq>>

VARIABLES
  counters,  \* the space metrics table: a set of items
  asked      \* the getAllocated that returned last, with its result

metricsVars == <<counters, asked>>

NotAsked == [consumer |-> ""]

MetricsInit ==
  /\ counters = {}
  /\ asked = NotAsked

RequestIdle == [pc |-> "idle"]

RedirectInit ==
  /\ bucket = {}
  /\ rawKeys = {}
  /\ rq = RequestIdle

AgentIdle == [pc |-> "idle"]

\* no write yet.  log: the writes that returned, each with its result
WriterIdle == [pc |-> "idle", log |-> <<>>]

AgentInit ==
  /\ store = AgentStore
  /\ objects = {}
  /\ wr = WriterIdle
  /\ writes = 0
  /\ lk = AgentIdle
  /\ stored = {}

LedgerKeys == Spaces \X Digests

BlobAddInput(space, digest, size, cause) ==
  [space |-> space, blob |-> [digest |-> digest, size |-> size], cause |-> cause]

\* the allocations the callers ask for: two that differ in size and cause on
\* one key, one on another digest of the space, one on the digest in another
\* space
BlobAddInputs ==
  { BlobAddInput("did:key:s1", <<0>>, 1, [cid |-> "bafy-c1"]),
    BlobAddInput("did:key:s1", <<0>>, 2, [cid |-> "bafy-c2"]),
    BlobAddInput("did:key:s1", <<58>>, 2, [cid |-> "bafy-c1"]),
    BlobAddInput("did:key:s2", <<0>>, 1, [cid |-> "bafy-c2"]) }

\* the keys the callers remove and read
CallKeys == {<<i.space, i.blob.digest>> : i \in BlobAddInputs}

\* what the service may do with a request
Outcomes == {"ok", "fail"}
DeleteOutcomes == {"ok", "fail", "noattrs"}

NoCall == [op |-> "none"]

LedgerStart ==
  /\ table = {}
  /\ now = 0
  /\ pc = [p \in Procs |-> "idle"]
  /\ req = [p \in Procs |-> NoCall]
  /\ calls = 0
  /\ last = NoCall
  /\ granted = [k \in LedgerKeys |-> None]
  /\ epochOk = [k \in LedgerKeys |-> 0]
  /\ allocated = [k \in LedgerKeys |-> 0]
  /\ released = [k \in LedgerKeys |-> 0]

LedgerInit == AgentInit /\ LedgerStart /\ RedirectInit /\ MetricsInit

Tick ==
  /\ now < MaxTime
  /\ now' = now + 1
  /\ UNCHANGED agentVars
  /\ UNCHANGED redirectVars
  /\ UNCHANGED metricsVars
  /\ UNCHANGED <<table, pc, req, calls, last, granted, epochOk, allocated, released>>

\* the callers that have a write call on key k in flight
InFlight(k, op) ==
  {q \in Procs : pc[q] = "sent" /\ req[q].op = op /\ req[q].key = k}

\* a call in flight takes the first free slot of the callers
FreeSlot(p) == pc[p] = "idle" /\ \A q \in Procs : q < p => pc[q] # "idle"

\* insert, up to the send: the item is built with the clock's reading
InsertBegin(p, input) ==
  /\ FreeSlot(p)
  /\ calls < MaxCalls
  /\ pc' = [pc EXCEPT ![p] = "sent"]
  /\ req' = [req EXCEPT ![p] =
               [op |-> "insert", key |-> <<input.space, input.blob.digest>>,
                input |-> input, at |-> now,
                cmd |-> InsertCommand(InsertItem(input, now)), raced |-> FALSE]]
  /\ calls' = calls + 1
  /\ UNCHANGED agentVars
  /\ UNCHANGED redirectVars
  /\ UNCHANGED metricsVars
  /\ UNCHANGED <<table, now, last, granted, epochOk, allocated, released>>

\* a call that returns marks the calls of the same kind on its key that
\* are in flight with it: they raced
MarkRaced(p) ==
  [q \in Procs |->
     IF q = p THEN NoCall
     ELSE IF pc[q] = "sent" /\ req[q].op = req[p].op /\ req[q].key = req[p].key
          THEN [req[q] EXCEPT !.raced = TRUE]
          ELSE req[q]]

\* insert, from the send on: the conditional put and the result made of it
InsertEnd(p, outcome) ==
  /\ pc[p] = "sent"
  /\ req[p].op = "insert"
  /\ LET response == DynamoSend(table, req[p].cmd, outcome)
         result == InsertResult(req[p].input, response)
         k == req[p].key
         size == req[p].input.blob.size
     IN  /\ table' = response.table
         /\ last' = [op |-> "insert", key |-> k, input |-> req[p].input,
                     outcome |-> outcome, result |-> result,
                     held |-> granted[k], changed |-> response.table # table,
                     raced |-> req[p].raced \/ InFlight(k, "insert") # {p}]
         /\ IF result.tag = "ok"
            THEN /\ granted' = [granted EXCEPT ![k] = [input |-> req[p].input, at |-> req[p].at]]
                 /\ epochOk' = [epochOk EXCEPT ![k] = @ + 1]
                 /\ allocated' = [allocated EXCEPT ![k] = @ + size]
            ELSE UNCHANGED <<granted, epochOk, allocated>>
  /\ pc' = [pc EXCEPT ![p] = "idle"]
  /\ req' = MarkRaced(p)
  /\ UNCHANGED agentVars
  /\ UNCHANGED redirectVars
  /\ UNCHANGED metricsVars
  /\ UNCHANGED <<now, calls, released>>

RemoveBegin(p, space, blobMultihash) ==
  /\ FreeSlot(p)
  /\ calls < MaxCalls
  /\ pc' = [pc EXCEPT ![p] = "sent"]
  /\ req' = [req EXCEPT ![p] =
               [op |-> "remove", key |-> <<space, blobMultihash>>,
                cmd |-> RemoveCommand(space, blobMultihash), raced |-> FALSE]]
  /\ calls' = calls + 1
  /\ UNCHANGED agentVars
  /\ UNCHANGED redirectVars
  /\ UNCHANGED metricsVars
  /\ UNCHANGED <<table, now, last, granted, epochOk, allocated, released>>

\* remove, from the send on: the conditional delete and the result made of it
RemoveEnd(p, outcome) ==
  /\ pc[p] = "sent"
  /\ req[p].op = "remove"
  /\ LET response == DynamoSend(table, req[p].cmd, outcome)
         result == RemoveResult(response)
         k == req[p].key
     IN  /\ table' = response.table
         /\ last' = [op |-> "remove", key |-> k,
                     outcome |-> outcome, result |-> result,
                     held |-> granted[k], changed |-> response.table # table,
                     raced |-> req[p].raced \/ InFlight(k, "remove") # {p}]
         /\ IF response.table # table
            THEN /\ granted' = [granted EXCEPT ![k] = None]
                 /\ epochOk' = [epochOk EXCEPT ![k] = 0]
            ELSE UNCHANGED <<granted, epochOk>>
         /\ released' = [released EXCEPT ![k] =
                           @ + (IF result.tag = "ok" THEN result.ok.size ELSE 0)]
  /\ pc' = [pc EXCEPT ![p] = "idle"]
  /\ req' = MarkRaced(p)
  /\ UNCHANGED agentVars
  /\ UNCHANGED redirectVars
  /\ UNCHANGED metricsVars
  /\ UNCHANGED <<now, calls, allocated>>

Exists(space, blobMultihash, outcome) ==
  /\ calls < MaxCalls
  /\ last' = [op |-> "exists", key |-> <<space, blobMultihash>>, outcome |-> outcome,
              result |-> exists(table, space, blobMultihash, outcome),
              held |-> granted[<<space, blobMultihash>>]]
  /\ calls' = calls + 1
  /\ UNCHANGED agentVars
  /\ UNCHANGED redirectVars
  /\ UNCHANGED metricsVars
  /\ UNCHANGED <<table, now, pc, req, granted, epochOk, allocated, released>>

Get(space, blobMultihash, outcome) ==
  /\ calls < MaxCalls
  /\ last' = [op |-> "get", key |-> <<space, blobMultihash>>, outcome |-> outcome,
              result |-> get(table, space, blobMultihash, outcome),
              held |-> granted[<<space, blobMultihash>>]]
  /\ calls' = calls + 1
  /\ UNCHANGED agentVars
  /\ UNCHANGED redirectVars
  /\ UNCHANGED metricsVars
  /\ UNCHANGED <<table, now, pc, req, granted, epochOk, allocated, released>>

(***************************************************************************)
(* Listing.  list reads the table and writes nothing, so it is checked on  *)
(* every table a run of inserts can build, one list call or one traversal  *)
(* (list, then list again with the cursor returned) at a time.             *)
(***************************************************************************)
\* the allocations the listed tables are made of
ListInputs ==
  { BlobAddInput("did:key:s1", <<0>>, 1, [cid |-> "bafy-c1"]),
    BlobAddInput("did:key:s1", <<57>>, 2, [cid |-> "bafy-c1"]),
    BlobAddInput("did:key:s1", <<58>>, 1, [cid |-> "bafy-c2"]),
    BlobAddInput("did:key:s2", <<0>>, 2, [cid |-> "bafy-c2"]) }

\* the tables inserts build from them: any of the allocations, each
\* inserted at any time of the clock
ListTables ==
  UNION { { {Marshall(InsertItem(i, at[i])) : i \in chosen} :
              at \in [chosen -> 0..MaxTime] } :
          chosen \in SUBSET ListInputs }

\* the options a caller lists with
Cursors == {Undefined} \cup {Base58btcEncode(d) : d \in Digests}
PageSizes == {0, 1, 2, 3}
ListOptions == [cursor : Cursors, size : PageSizes, pre : BOOLEAN]

ListInit ==
  /\ AgentInit
  /\ RedirectInit
  /\ MetricsInit
  /\ table \in ListTables
  /\ now = MaxTime
  /\ pc = [p \in Procs |-> "idle"]
  /\ req = [p \in Procs |-> NoCall]
  /\ calls = 0
  /\ last = NoCall
  /\ granted = [k \in LedgerKeys |-> None]
  /\ epochOk = [k \in LedgerKeys |-> 0]
  /\ allocated = [k \in LedgerKeys |-> 0]
  /\ released = [k \in LedgerKeys |-> 0]

\* tables of a space that holds about a default page of records, one
\* fewer to two more, next to a space that holds two
LongTables ==
  { {Marshall(InsertItem(BlobAddInput("did:key:s1", <<d>>, 1, [cid |-> "bafy-c1"]), 0)) :
       d \in 1..n}
    \cup {Marshall(InsertItem(BlobAddInput("did:key:s2", <<d>>, 2, [cid |-> "bafy-c2"]), 0)) :
       d \in 1..2} :
      n \in (DefaultListSize - 1)..(DefaultListSize + 2) }

LongListInit ==
  /\ AgentInit
  /\ RedirectInit
  /\ MetricsInit
  /\ table \in LongTables
  /\ now = MaxTime
  /\ pc = [p \in Procs |-> "idle"]
  /\ req = [p \in Procs |-> NoCall]
  /\ calls = 0
  /\ last = NoCall
  /\ granted = [k \in LedgerKeys |-> None]
  /\ epochOk = [k \in LedgerKeys |-> 0]
  /\ allocated = [k \in LedgerKeys |-> 0]
  /\ released = [k \in LedgerKeys |-> 0]

ResultsOf(result) == IF result.tag = "ok" THEN result.ok.results ELSE <<>>

\* one list call.  whole: it starts at the head of the listing; answered:
\* the service answered every call of the traversal so far; visited: what
\* the traversal has returned so far
List(space, options, outcome) ==
  /\ LET result == list(table, space, options, outcome)
     IN  last' = [op |-> "list", space |-> space, options |-> options,
                  outcome |-> outcome, result |-> result,
                  whole |-> options.cursor = Undefined, answered |-> outcome = "ok",
                  pages |-> 1, visited |-> ResultsOf(result)]
  /\ UNCHANGED agentVars
  /\ UNCHANGED redirectVars
  /\ UNCHANGED metricsVars
  /\ UNCHANGED <<table, now, pc, req, calls, granted, epochOk, allocated, released>>

\* the caller pages on: the same listing from the cursor the last page returned
ListMore(outcome) ==
  /\ last.op = "list"
  /\ last.result.tag = "ok"
  /\ last.result.ok.cursor # Undefined
  /\ LET options == [last.options EXCEPT !.cursor = last.result.ok.cursor]
         result == list(table, last.space, options, outcome)
     IN  last' = [last EXCEPT !.options = options, !.outcome = outcome,
                              !.result = result, !.pages = @ + 1,
                              !.answered = @ /\ outcome = "ok",
                              !.visited = @ \o ResultsOf(result)]
  /\ UNCHANGED agentVars
  /\ UNCHANGED redirectVars
  /\ UNCHANGED metricsVars
  /\ UNCHANGED <<table, now, pc, req, calls, granted, epochOk, allocated, released>>

ListNext ==
  \/ \E space \in Spaces, options \in ListOptions, outcome \in Outcomes :
       List(space, options, outcome)
  \/ \E outcome \in Outcomes : ListMore(outcome)

(***************************************************************************)
(* The agent store as a state machine: one writer, whose put commands are  *)
(* all in flight at once and complete in any order, and one reader, whose  *)
(* lookup is a chain of single requests to the service.                    *)
(***************************************************************************)
\* number of writes a behaviour may start
MaxWrites == 2

S3PutOutcomes == {"ok", "fail"}
S3ListOutcomes == {"ok", "fail", "404"}
S3GetOutcomes == {"ok", "fail", "nobody"}

\* write, up to the sends: every command of the message goes out
WriteBegin(message) ==
  /\ wr.pc = "idle"
  /\ writes < MaxWrites
  /\ LET commands == assert(store, message)
     IN  wr' = [pc |-> "sending", message |-> message, commands |-> commands,
                pending |-> 1..Len(commands), result |-> None,
                outcomes |-> [n \in 1..Len(commands) |-> "pending"],
                log |-> wr.log]
  /\ writes' = writes + 1
  /\ UNCHANGED <<store, objects, lk, stored>>
  /\ UNCHANGED ledgerVars
  /\ UNCHANGED redirectVars
  /\ UNCHANGED metricsVars

\* write, as one send settles: Promise.all resolves when the last send
\* settled and none failed, and rejects with the error of the first send that
\* fails, which the catch turns into the result
WriteResultOkOnLast(prior, outcome, pending) ==
  IF prior # None THEN prior
  ELSE IF pending = {} THEN Ok("unit")
  ELSE IF outcome = "fail" THEN Error("InternalError")
  ELSE None

WriteResult(prior, outcome, pending) ==
  IF prior # None THEN prior
  ELSE IF outcome = "fail" THEN Error("InternalError")
  ELSE IF pending = {} THEN Ok("unit")
  ELSE None

\* one send settles
WriteSettle(n, outcome) ==
  /\ wr.pc = "sending"
  /\ n \in wr.pending
  /\ LET pending == wr.pending \ {n}
         result == WriteResult(wr.result, outcome, pending)
         outcomes == [wr.outcomes EXCEPT ![n] = outcome]
     IN  /\ objects' = IF outcome = "ok" THEN S3PutObject(objects, wr.commands[n])
                       ELSE objects
         /\ wr' = IF pending = {}
                  THEN [pc |-> "idle", result |-> result, message |-> wr.message,
                        outcomes |-> outcomes,
                        log |-> Append(wr.log, [id |-> wr.message.data.root.cid,
                                                tag |-> result.tag])]
                  ELSE [wr EXCEPT !.pending = pending, !.result = result,
                                  !.outcomes = outcomes]
         /\ stored' = IF wr.result = None /\ result # None /\ result.tag = "ok"
                      THEN stored \cup {wr.message.data.root.cid}
                      ELSE stored
  /\ UNCHANGED <<store, writes, lk>>
  /\ UNCHANGED ledgerVars
  /\ UNCHANGED redirectVars
  /\ UNCHANGED metricsVars

LookupKinds == {"invocation", "receipt"}

\* the index holds a pseudo symlink of task with the suffix, and the message
\* bucket the archive it names
EntryStored(objs, connection, task, suffix) ==
  \E o \in objs :
    /\ o.Bucket = connection.buckets.index.name
    /\ StartsWith(o.Key, task \o <<"/">>)
    /\ EndsWith(o.Key, suffix)
    /\ LET at == toIndexEntry(o.Key).at
       IN  S3Lookup(objs, connection.buckets.message.name, at \o <<"/">> \o at) # None

\* step, outcome: the step the lookup returned from and what the backend
\* did with that step's request
Finished(result, answered, outcome) ==
  [lk EXCEPT !.pc = "done", !.result = result, !.answered = answered,
             !.step = lk.pc, !.outcome = outcome]

\* getInvocation or getReceipt of task begins; after: the writes that had
\* returned ok by then
LookupBegin(kind, task) ==
  /\ lk.pc \in {"idle", "done"}
  /\ lk' = [pc |-> "resolve", kind |-> kind, task |-> task, after |-> stored,
            had |-> [in |-> EntryStored(objects, store, task, <<".", "i", "n">>),
                     out |-> EntryStored(objects, store, task, <<".", "o", "u", "t">>)],
            answered |-> TRUE, index |-> None, result |-> None,
            step |-> "", outcome |-> ""]
  /\ UNCHANGED <<store, objects, wr, writes, stored>>
  /\ UNCHANGED ledgerVars
  /\ UNCHANGED redirectVars
  /\ UNCHANGED metricsVars

\* load: resolve of the invocation query, which both lookups start with
LookupResolve(outcome) ==
  /\ lk.pc = "resolve"
  /\ LET r == resolve(objects, store, [invocation |-> lk.task, receipt |-> None], outcome)
         answered == lk.answered /\ outcome = "ok"
     IN  lk' = IF r.tag = "error" THEN Finished(r, answered, outcome)
               ELSE [lk EXCEPT !.pc = "read", !.index = r.ok, !.answered = answered]
  /\ UNCHANGED <<store, objects, wr, writes, stored>>
  /\ UNCHANGED ledgerVars
  /\ UNCHANGED redirectVars
  /\ UNCHANGED metricsVars

\* load: read of the archive; getInvocation ends here
LookupRead(outcome) ==
  /\ lk.pc = "read"
  /\ LET bytes == read(objects, store, lk.index.at, outcome)
         answered == lk.answered /\ outcome = "ok"
         loaded == Loaded(lk.index, bytes.ok)
     IN  lk' = IF bytes.tag = "error" THEN Finished(bytes, answered, outcome)
               ELSE IF lk.kind = "invocation"
                    THEN Finished(InvocationOf(lk.task, loaded), answered, outcome)
               ELSE IF loaded.tag # "ok" THEN Finished(loaded, answered, outcome)
               ELSE [lk EXCEPT !.pc = "resolve2", !.answered = answered]
  /\ UNCHANGED <<store, objects, wr, writes, stored>>
  /\ UNCHANGED ledgerVars
  /\ UNCHANGED redirectVars
  /\ UNCHANGED metricsVars

\* getReceipt: resolve of the receipt query
LookupResolveReceipt(outcome) ==
  /\ lk.pc = "resolve2"
  /\ LET r == resolve(objects, store, [invocation |-> None, receipt |-> lk.task], outcome)
         answered == lk.answered /\ outcome = "ok"
     IN  lk' = IF r.tag = "error" THEN Finished(r, answered, outcome)
               ELSE [lk EXCEPT !.pc = "read2", !.index = r.ok, !.answered = answered]
  /\ UNCHANGED <<store, objects, wr, writes, stored>>
  /\ UNCHANGED ledgerVars
  /\ UNCHANGED redirectVars
  /\ UNCHANGED metricsVars

\* getReceipt: read of the archive the receipt entry names, and the view
LookupReadReceipt(outcome) ==
  /\ lk.pc = "read2"
  /\ LET body == read(objects, store, lk.index.at, outcome)
         answered == lk.answered /\ outcome = "ok"
     IN  lk' = IF body.tag = "error" THEN Finished(body, answered, outcome)
               ELSE Finished(ReceiptOf(lk.task, lk.index, body.ok), answered, outcome)
  /\ UNCHANGED <<store, objects, wr, writes, stored>>
  /\ UNCHANGED ledgerVars
  /\ UNCHANGED redirectVars
  /\ UNCHANGED metricsVars

\* the store as a deployment finds it: either configuration, empty or with
\* a message of the legacy layout; the ledger idle
AgentStart ==
  /\ store \in AgentStores
  /\ objects \in {{}, LegacyObjects(store), LegacyReceiptObjects(store)}
  /\ wr = WriterIdle
  /\ writes = 0
  /\ lk = AgentIdle
  /\ stored = {}
  /\ LedgerStart
  /\ RedirectInit
  /\ MetricsInit

(***************************************************************************)
(* resolve on its own: the index as years of writes under both layouts     *)
(* left it, and one resolve of a query.                                    *)
(***************************************************************************)
\* index keys of task i0 and of task t1: legacy ones, and current ones whose
\* counterpart sorts before and after the legacy message ids
ResolveKeys ==
  { I0 \o <<"/">> \o M0 \o <<".", "i", "n">>,
    I0 \o <<"/">> \o M9 \o <<".", "i", "n">>,
    I0 \o <<"/">> \o I1 \o <<"@">> \o M1 \o <<".", "i", "n">>,
    I0 \o <<"/">> \o T1 \o <<"@">> \o M2 \o <<".", "i", "n">>,
    I0 \o <<"/">> \o T2 \o <<"@">> \o M3 \o <<".", "i", "n">>,
    I0 \o <<"/">> \o M0 \o <<".", "o", "u", "t">>,
    I0 \o <<"/">> \o R1 \o <<"@">> \o M1 \o <<".", "o", "u", "t">>,
    T1 \o <<"/">> \o I1 \o <<"@">> \o M1 \o <<".", "i", "n">> }

ResolveInit ==
  /\ store \in AgentStores
  /\ objects \in {{[Bucket |-> store.buckets.index.name, Key |-> k, Body |-> None] : k \in keys} :
                    keys \in SUBSET ResolveKeys}
  /\ wr = WriterIdle
  /\ writes = 0
  /\ lk = AgentIdle
  /\ stored = {}
  /\ LedgerStart
  /\ RedirectInit
  /\ MetricsInit

\* one resolve of the query of a kind for a task
Resolve(kind, task, outcome) ==
  /\ lk.pc = "idle"
  /\ LET query == IF kind = "invocation" THEN [invocation |-> task, receipt |-> None]
                  ELSE [invocation |-> None, receipt |-> task]
     IN  lk' = [pc |-> "resolved", kind |-> kind, task |-> task, outcome |-> outcome,
                result |-> resolve(objects, store, query, outcome)]
  /\ UNCHANGED <<store, objects, wr, writes, stored>>
  /\ UNCHANGED ledgerVars
  /\ UNCHANGED redirectVars
  /\ UNCHANGED metricsVars

ResolveNext ==
  \E kind \in LookupKinds, task \in {I0, T1, T3}, outcome \in S3ListOutcomes :
    Resolve(kind, task, outcome)

AgentNext ==
  \/ \E message \in AgentMessages : WriteBegin(message)
  \/ \E n \in 1..3, outcome \in S3PutOutcomes : WriteSettle(n, outcome)
  \/ \E kind \in LookupKinds, task \in LookupTasks : LookupBegin(kind, task)
  \/ \E outcome \in S3ListOutcomes : LookupResolve(outcome)
  \/ \E outcome \in S3GetOutcomes : LookupRead(outcome)
  \/ \E outcome \in S3ListOutcomes : LookupResolveReceipt(outcome)
  \/ \E outcome \in S3GetOutcomes : LookupReadReceipt(outcome)

(***************************************************************************)
(* The redirect handler (src/unnamed/part_000).  The identifier            *)
(* equivalence resolver and the content location resolver are the          *)
(* collaborators of its contract: findEquivalentCids returns the set of    *)
(* equivalent identifiers, iterated in a fixed order, and locateContent    *)
(* returns a signed URL when the bucket holds the identifier's content and *)
(* undefined when it does not.                                             *)
(***************************************************************************)
\* identifiers: v2 pieces of three contents, a v1 piece, a CAR, raw
\* contents, and an identifier of a codec the service does not know
Cid(text, kind) == [text |-> text, kind |-> kind]

PieceV2A == Cid("bafkzcib-a", "pieceV2")
PieceV2B == Cid("bafkzcib-b", "pieceV2")
PieceV2E == Cid("bafkzcib-e", "pieceV2")
PieceV1 == Cid("baga6ea4sea-a", "pieceV1")
CarA == Cid("bagbaiera-a", "car")
RawA == Cid("bafkrei-a", "raw")
RawB == Cid("bafkrei-b", "raw")
DagPb == Cid("bafybei-x", "dag-pb")

Cids == {PieceV2A, PieceV2B, PieceV2E, PieceV1, CarA, RawA, RawB, DagPb}

\* what a request may carry as its cid path parameter: the text of an
\* identifier, a text that is none, or nothing
CidStrings == {c.text : c \in Cids} \cup {"not-a-cid", ""}

\* CID.parse
CidParse(cidString) ==
  IF \E c \in Cids : c.text = cidString
  THEN Ok(CHOOSE c \in Cids : c.text = cidString)
  ELSE Throw("SyntaxError")

\* parseQueryStringParameters: expiresIn is absent ("") or a number of seconds
ExpiresInStrings == {"", "60", "soon"}

parseQueryStringParameters(queryStringParameters) ==
  IF queryStringParameters.expiresIn \in {"", "60"}
  THEN Ok([expiresIn |-> queryStringParameters.expiresIn])
  ELSE Throw("Error")

asPieceCidV2(cid) == IF cid.kind = "pieceV2" THEN cid ELSE None

asPieceCidV1(cid) == IF cid.kind = "pieceV1" THEN cid ELSE None

\* findEquivalentCids: the equivalent identifiers of a v2 piece, in the
\* iteration order of the set
findEquivalentCids(piece) ==
  IF piece = PieceV2A THEN <<PieceV2A, RawA, CarA>>
  ELSE IF piece = PieceV2B THEN <<RawB, PieceV2B>>
  ELSE <<>>

\* the signed URL of an identifier's content
SignedUrl(cid, expiresIn) == [key |-> cid.text, expiresIn |-> expiresIn]

\* contentLocationResolver(...)(cid): the URL, or undefined on a miss
locateContent(held, cid, expiresIn) ==
  IF cid \in held THEN SignedUrl(cid, expiresIn) ELSE None

redirectTo(url) == [statusCode |-> "302", headers |-> [Location |-> url], body |-> ""]

Response(statusCode, body) == [statusCode |-> statusCode, headers |-> None, body |-> body]

UnsupportedV1 ==
  Response("415", "v1 Piece CIDs are not supported yet. Please provide a V2 Piece CID.")

\* resolveContent that finds nothing
resolveContentNotFound(url) == Response("404", "Content Not found")

\* resolveContent, after locateContent returned url
resolveContent(url) ==
  IF url # None THEN redirectTo(url) ELSE Response("404", "Content Not found")

\* the branch redirectGet takes for an identifier
BranchV1AsContent(cid) ==
  IF asPieceCidV2(cid) # None THEN "piece" ELSE "content"

Branch(cid) ==
  IF asPieceCidV2(cid) # None THEN "piece"
  ELSE IF asPieceCidV1(cid) # None THEN "v1"
  ELSE "content"

\* redirectGet's last line: the response, or 415 when there is none
OrUnsupported(response) ==
  IF response # None THEN response ELSE Response("415", "Unsupported CID type")

Done(response) ==
  [rq EXCEPT !.pc = "done", !.response = OrUnsupported(response)]

\* redirectGet, up to the first await
RedirectGet(request) ==
  /\ rq.pc \in {"idle", "done"}
  /\ LET query == parseQueryStringParameters(request.queryStringParameters)
         cid == CidParse(request.pathParameters.cid)
         start == [pc |-> "parsed", request |-> request, cid |-> None, expiresIn |-> "",
                   finds |-> 0, cids |-> <<>>, probed |-> <<>>, response |-> None]
     IN  rq' = IF query.tag = "throw" \/ cid.tag = "throw"
               THEN [start EXCEPT !.pc = "done",
                                  !.response = Response("400", IF query.tag = "throw"
                                                               THEN query.name ELSE cid.name)]
               ELSE IF Branch(cid.ok) = "v1"
                    THEN [start EXCEPT !.pc = "done", !.cid = cid.ok,
                                       !.expiresIn = query.ok.expiresIn,
                                       !.response = OrUnsupported(UnsupportedV1)]
               ELSE [start EXCEPT !.pc = Branch(cid.ok), !.cid = cid.ok,
                                  !.expiresIn = query.ok.expiresIn]
  /\ UNCHANGED <<bucket, rawKeys>>
  /\ UNCHANGED metricsVars
  /\ UNCHANGED ledgerVars
  /\ UNCHANGED agentVars

\* resolveContent: the one probe of a content identifier
ResolveContent ==
  /\ rq.pc = "content"
  /\ rq' = [Done(resolveContent(locateContent(bucket, rq.cid, rq.expiresIn)))
              EXCEPT !.probed = <<rq.cid>>]
  /\ UNCHANGED <<bucket, rawKeys>>
  /\ UNCHANGED metricsVars
  /\ UNCHANGED ledgerVars
  /\ UNCHANGED agentVars

\* resolvePiece, up to the loop
ResolvePiece ==
  /\ rq.pc = "piece"
  /\ LET cids == findEquivalentCids(rq.cid)
     IN  rq' = IF Len(cids) = 0
               THEN [Done(Response("404", "No equivalent CID for Piece CID found"))
                       EXCEPT !.finds = rq.finds + 1]
               ELSE [rq EXCEPT !.pc = "probing", !.cids = cids, !.finds = rq.finds + 1]
  /\ UNCHANGED <<bucket, rawKeys>>
  /\ UNCHANGED metricsVars
  /\ UNCHANGED ledgerVars
  /\ UNCHANGED agentVars

\* one turn of the loop of resolvePiece that ends an exhausted set with the
\* response of the empty set
PieceTurnSameBody(url, exhausted) ==
  IF url # None THEN redirectTo(url)
  ELSE IF exhausted THEN Response("404", "No equivalent CID for Piece CID found")
  ELSE None

\* one turn of the loop of resolvePiece that goes on after a hit
PieceTurnKeepsGoing(url, exhausted) ==
  IF exhausted THEN (IF url # None THEN redirectTo(url)
                ELSE Response("404", "No content found for Piece CID"))
  ELSE None

\* one turn of the loop of resolvePiece: the response it returns with, or
\* None when the loop goes on; exhausted: the candidate was the last one
PieceTurn(url, exhausted) ==
  IF url # None THEN redirectTo(url)
  ELSE IF exhausted THEN Response("404", "No content found for Piece CID")
  ELSE None

\* resolvePiece: the probe of the next candidate
Probe ==
  /\ rq.pc = "probing"
  /\ LET n == Len(rq.probed) + 1
         url == locateContent(bucket, rq.cids[n], rq.expiresIn)
         turn == PieceTurn(url, n = Len(rq.cids))
         probed == Append(rq.probed, rq.cids[n])
     IN  rq' = IF turn # None THEN [Done(turn) EXCEPT !.probed = probed]
               ELSE [rq EXCEPT !.probed = probed]
  /\ UNCHANGED <<bucket, rawKeys>>
  /\ UNCHANGED metricsVars
  /\ UNCHANGED ledgerVars
  /\ UNCHANGED agentVars

Requests ==
  [pathParameters : [cid : CidStrings], queryStringParameters : [expiresIn : ExpiresInStrings]]

\* any content may be in the bucket
RedirectStart ==
  /\ bucket \in SUBSET (Cids \ {PieceV2E})
  /\ rawKeys = {}
  /\ rq = RequestIdle
  /\ AgentInit
  /\ LedgerStart
  /\ MetricsInit

\* the bucket of the deployment and one a request may name
BucketName == "carpark"
OtherBucket == "dagcargo"

\* what a request may carry as its key path parameter: a key, or nothing
KeyStrings == {"0000c19b_baga6ea4seaq.car", "0001d2ac_baga6ea4seaq.car", ""}

BucketNames == {"", OtherBucket}

\* parseQueryStringParameters: expiresIn as above; bucketName is absent ("")
\* or the name of a bucket
parseKeyQueryStringParameters(queryStringParameters) ==
  LET parsed == parseQueryStringParameters(queryStringParameters)
  IN  IF parsed.tag = "throw" THEN parsed
      ELSE Ok([expiresIn |-> parsed.ok.expiresIn,
               bucketName |-> queryStringParameters.bucketName])

\* getSigner(s3Client, bucketName): the signer of the named bucket, of the
\* deployment's bucket when none is named
getSigner(bucketName) ==
  [bucket |-> IF bucketName = "" THEN BucketName ELSE bucketName]

\* signer.getUrl(key, { expiresIn }): the signed URL of the object, or
\* undefined when the bucket has no such object
getUrl(held, signer, key, expiresIn) ==
  IF [Bucket |-> signer.bucket, Key |-> key] \in held
  THEN [bucket |-> signer.bucket, key |-> key, expiresIn |-> expiresIn]
  ELSE None

\* toLambdaResponse that redirects to whatever the signer returned
toLambdaResponseAlways(signedUrl) == redirectTo(signedUrl)

toLambdaResponse(signedUrl) ==
  IF signedUrl = None THEN [statusCode |-> "404", headers |-> None, body |-> ""]
  ELSE redirectTo(signedUrl)

\* redirectKeyGet, up to the await of the signer
RedirectKeyGet(request) ==
  /\ rq.pc \in {"idle", "done"}
  /\ LET query == parseKeyQueryStringParameters(request.queryStringParameters)
         key == request.pathParameters.key
         start == [pc |-> "signing", request |-> request, key |-> key, expiresIn |-> "",
                   bucketName |-> "", signed |-> <<>>, response |-> None]
     IN  rq' = IF query.tag = "throw"
               THEN [start EXCEPT !.pc = "done", !.response = Response("400", query.name)]
               ELSE IF key = ""
               THEN [start EXCEPT !.pc = "done",
                                  !.response = Response("400", "no path key provided")]
               ELSE [start EXCEPT !.expiresIn = query.ok.expiresIn,
                                  !.bucketName = query.ok.bucketName]
  /\ UNCHANGED <<bucket, rawKeys>>
  /\ UNCHANGED metricsVars
  /\ UNCHANGED ledgerVars
  /\ UNCHANGED agentVars

\* redirectKeyGet, from the signer's answer on.  signed: the calls of the
\* signer, each with its bucket and key
Sign ==
  /\ rq.pc = "signing"
  /\ LET signer == getSigner(rq.bucketName)
         signedUrl == getUrl(rawKeys, signer, rq.key, rq.expiresIn)
     IN  rq' = [rq EXCEPT !.pc = "done",
                          !.signed = Append(rq.signed, [Bucket |-> signer.bucket, Key |-> rq.key]),
                          !.response = toLambdaResponse(signedUrl)]
  /\ UNCHANGED <<bucket, rawKeys>>
  /\ UNCHANGED metricsVars
  /\ UNCHANGED ledgerVars
  /\ UNCHANGED agentVars

KeyRequests ==
  [pathParameters : [key : KeyStrings],
   queryStringParameters : [expiresIn : ExpiresInStrings, bucketName : BucketNames]]

\* any of the keys may be in either bucket
KeyStart ==
  /\ bucket = {}
  /\ rawKeys \in SUBSET [Bucket : {BucketName, OtherBucket}, Key : KeyStrings \ {""}]
  /\ rq = RequestIdle
  /\ AgentInit
  /\ LedgerStart
  /\ MetricsInit

KeyNext ==
  \/ \E request \in KeyRequests : RedirectKeyGet(request)
  \/ Sign

RedirectNext ==
  \/ \E request \in Requests : RedirectGet(request)
  \/ ResolveContent
  \/ ResolvePiece
  \/ Probe

(***************************************************************************)
(* The space metrics table as the stream consumers left it, and reads of   *)
(* the allocated size of a consumer.                                       *)
(***************************************************************************)
\* the consumers with counters, and one no counter was ever written for
Consumers == {"did:key:s1", "did:key:s2"}
Unseen == "did:key:s3"

CounterNames == {AddSizeTotal, "store/remove-size-total"}

CounterValues == {0, 5, 7}

\* every table of counters: each counter of each consumer absent or at a value
MetricsTables ==
  { {Marshall([consumer |-> k[1], name |-> k[2], value |-> at[k]]) : k \in chosen} :
      chosen \in SUBSET (Consumers \X CounterNames), at \in [Consumers \X CounterNames -> CounterValues] }

MetricsStart ==
  /\ counters \in MetricsTables
  /\ asked = NotAsked
  /\ AgentInit
  /\ LedgerStart
  /\ RedirectInit

GetAllocated(consumer, outcome) ==
  /\ asked' = [consumer |-> consumer, outcome |-> outcome,
               result |-> getAllocated(counters, consumer, outcome)]
  /\ UNCHANGED counters
  /\ UNCHANGED ledgerVars
  /\ UNCHANGED agentVars
  /\ UNCHANGED redirectVars

MetricsNext ==
  \E consumer \in Consumers \cup {Unseen}, outcome \in Outcomes : GetAllocated(consumer, outcome)

LedgerNext ==
  \/ Tick
  \/ \E p \in Procs, input \in BlobAddInputs : InsertBegin(p, input)
  \/ \E p \in Procs, outcome \in Outcomes : InsertEnd(p, outcome)
  \/ \E p \in Procs, k \in CallKeys : RemoveBegin(p, k[1], k[2])
  \/ \E p \in Procs, outcome \in DeleteOutcomes : RemoveEnd(p, outcome)
  \/ \E k \in CallKeys, outcome \in Outcomes : Exists(k[1], k[2], outcome)
  \/ \E k \in CallKeys, outcome \in Outcomes : Get(k[1], k[2], outcome)

vars == <<ledgerVars, agentVars, redirectVars, metricsVars>>

Init == LedgerInit

Next == LedgerNext

Spec == Init /\ [][Next]_vars

SpecList == ListInit /\ [][ListNext]_vars

SpecLongList == LongListInit /\ [][ListNext]_vars

SpecAgent == AgentStart /\ [][AgentNext]_vars

SpecResolve == ResolveInit /\ [][ResolveNext]_vars

\* the writer on its own
WriteNext ==
  \/ \E message \in AgentMessages : WriteBegin(message)
  \/ \E n \in 1..3, outcome \in S3PutOutcomes : WriteSettle(n, outcome)

SpecWrite == AgentStart /\ [][WriteNext]_vars

SpecRedirect == RedirectStart /\ [][RedirectNext]_vars

SpecKey == KeyStart /\ [][KeyNext]_vars

SpecMetrics == MetricsStart /\ [][MetricsNext]_vars


(***************************************************************************)
(* Properties of the allocation ledger                                     *)
(***************************************************************************)
\* the stored item of key k, None when there is none
Stored(k) == Lookup(table, getKey(k[1], k[2]))

\* what get returns for the allocation input
AllocationOf(input) == Ok([blob |-> input.blob, cause |-> input.cause])

\* C1: once insert({space: s, blob: {digest: d, size}, cause}) has returned ok
\* and until a remove deletes the record, exists(s, d) returns {ok: true} and
\* get(s, d) returns ok with exactly the inserted digest, size and cause, when
\* the service answers the read.
C1_InsertedIsReadBack ==
  /\ (last.op = "exists" /\ last.outcome = "ok" /\ last.held # None)
       => last.result = Ok(TRUE)
  /\ (last.op = "get" /\ last.outcome = "ok" /\ last.held # None)
       => last.result = AllocationOf(last.held.input)

\* a get that found an allocation made after the clock had moved on
C1_Witness ==
  /\ last.op = "get"
  /\ last.outcome = "ok"
  /\ last.held # None
  /\ last.held.at > 0
  /\ last.result = AllocationOf(last.held.input)

\* C2: insert on a key that holds a live record returns RecordKeyConflict and
\* leaves the table as it was; in every state a key has at most one record,
\* and the record of a key is the one its last successful insert wrote, with
\* that insert's size, cause and insertedAt.
C2_ConflictKeepsRecord ==
  /\ (last.op = "insert" /\ last.outcome = "ok" /\ last.held # None)
       => (last.result = Error("RecordKeyConflict") /\ ~last.changed)
  /\ \A k \in LedgerKeys :
       /\ Cardinality({i \in table : KeyOf(i) = getKey(k[1], k[2])}) <= 1
       /\ Stored(k) = IF granted[k] = None THEN None
                      ELSE Marshall(InsertItem(granted[k].input, granted[k].at))

\* an insert of another size, made later than the record it ran into
C2_Witness ==
  /\ last.op = "insert"
  /\ last.held # None
  /\ last.result = Error("RecordKeyConflict")
  /\ last.input.blob.size # last.held.input.blob.size
  /\ last.held.at < now
  /\ Stored(last.key) = Marshall(InsertItem(last.held.input, last.held.at))

\* C3: of the insert calls that run concurrently on one key, the one the
\* service executes on the free key returns ok and every other one returns
\* RecordKeyConflict; between two deletions of a key at most one insert
\* returns ok.
C3_OneInsertWins ==
  /\ \A k \in LedgerKeys :
       /\ epochOk[k] <= 1
       /\ (epochOk[k] = 1) <=> (granted[k] # None)
  /\ (last.op = "insert" /\ last.raced /\ last.outcome = "ok")
       => last.result = IF last.held = None THEN Ok([blob |-> last.input.blob])
                        ELSE Error("RecordKeyConflict")

\* an insert lost to the insert it raced with
C3_Witness ==
  /\ last.op = "insert"
  /\ last.raced
  /\ last.result = Error("RecordKeyConflict")
  /\ epochOk[last.key] = 1
  /\ calls = 2

\* C4: remove(s, d) on a key that holds no record, never inserted or already
\* removed, returns ok {size: 0} and leaves the table as it was, every time
\* it is called, when the service answers the delete.
C4_RemoveOfAbsentIsNoop ==
  (last.op = "remove" /\ last.outcome # "fail" /\ last.held = None)
    => (last.result = Ok([size |-> 0]) /\ ~last.changed)

\* a remove repeated after the remove that released the allocation
C4_Witness ==
  /\ last.op = "remove"
  /\ last.outcome = "ok"
  /\ last.held = None
  /\ allocated[last.key] > 0
  /\ released[last.key] = allocated[last.key]
  /\ last.result = Ok([size |-> 0])

\* C5: remove(s, d) on a key holding a live record returns ok with the size
\* the insert stored and deletes the record; on a key without a record get
\* returns RecordNotFound, exists returns false and insert succeeds, when the
\* service answers.
C5_RemoveDeletes ==
  /\ (last.op = "remove" /\ last.outcome = "ok" /\ last.held # None)
       => /\ last.result = Ok([size |-> last.held.input.blob.size])
          /\ last.changed
          /\ Stored(last.key) = None
  /\ (last.op = "get" /\ last.outcome = "ok" /\ last.held = None)
       => last.result = Error("RecordNotFound")
  /\ (last.op = "exists" /\ last.held = None) => last.result = Ok(FALSE)
  /\ (last.op = "insert" /\ last.outcome = "ok" /\ last.held = None)
       => last.result = Ok([blob |-> last.input.blob])

\* an insert that succeeded on a key a remove had released
C5_Witness ==
  /\ last.op = "insert"
  /\ last.result.tag = "ok"
  /\ released[last.key] = 2
  /\ granted[last.key] # None
  /\ granted[last.key].input.blob.size = 1

\* C6: of the remove calls that race on one live record, the one the service
\* executes on the record returns its size and every other one returns size
\* 0; the sizes the removes of a key returned never sum to more than the
\* sizes its successful inserts stored, less the size of the live record.
C6_NoDoubleRelease ==
  /\ \A k \in LedgerKeys :
       released[k] + (IF granted[k] = None THEN 0 ELSE granted[k].input.blob.size)
         <= allocated[k]
  /\ (last.op = "remove" /\ last.raced /\ last.outcome = "ok")
       => last.result = Ok([size |-> IF last.held = None THEN 0
                                     ELSE last.held.input.blob.size])

\* a remove that returned 0 after the remove it raced with returned the size
C6_Witness ==
  /\ last.op = "remove"
  /\ last.raced
  /\ last.outcome = "ok"
  /\ last.result = Ok([size |-> 0])
  /\ released[last.key] = 2
  /\ allocated[last.key] = 2


(***************************************************************************)
(* Properties of the listing                                               *)
(***************************************************************************)
\* the stored records of a space
SpaceRecords(space) == {Unmarshall(i) : i \in {j \in table : j.space.S = space}}

\* the last call is a single list of the head of a listing that was answered
ListedHead ==
  /\ last.op = "list"
  /\ last.pages = 1
  /\ last.whole
  /\ last.result.tag = "ok"

LimitOf(options) == IF options.size # 0 THEN options.size ELSE DefaultListSize

KeyString(blobListItem) == Base58btcEncode(blobListItem.blob.digest)

Min(a, b) == IF a < b THEN a ELSE b

\* C7 as claimed: list(s, {}) returns the records of space s ordered by
\* insertion time ascending, and the reversed list returns the same set of
\* records in descending insertion time order.  Stated of the listings
\* whose page holds every record of the space.
C7_InsertionTimeOrder ==
  ListedHead /\ Cardinality(SpaceRecords(last.space)) <= LimitOf(last.options) =>
    LET r == last.result.ok.results
        forward == list(table, last.space, [last.options EXCEPT !.pre = FALSE], "ok")
    IN  IF ~last.options.pre
        THEN \A i, j \in 1..Len(r) : i < j => r[i].insertedAt.iso <= r[j].insertedAt.iso
        ELSE /\ \A i, j \in 1..Len(r) : i < j => r[i].insertedAt.iso >= r[j].insertedAt.iso
             /\ {r[i] : i \in 1..Len(r)}
                  = {forward.ok.results[i] : i \in 1..Len(forward.ok.results)}

\* C7 as amended: list(s, {}) returns the first records of space s in the
\* ascending order of their base58btc multihash keys, up to the page size;
\* list(s, {pre: true}) returns the last records of s in that order, also
\* ascending; both return every record of s when s holds no more than the
\* page size.
C7_KeyOrder ==
  ListedHead =>
    LET r == last.result.ok.results
        listed == {r[i] : i \in 1..Len(r)}
        records == {[blob |-> [digest |-> Base58btcDecode(x.multihash), size |-> x.size],
                     insertedAt |-> x.insertedAt] : x \in SpaceRecords(last.space)}
    IN  /\ \A i, j \in 1..Len(r) : i < j => LexLess(KeyString(r[i]), KeyString(r[j]))
        /\ listed \subseteq records
        /\ Len(r) = Min(LimitOf(last.options), Cardinality(records))
        /\ \A x \in listed, y \in records \ listed :
             IF last.options.pre THEN LexLess(KeyString(y), KeyString(x))
             ELSE LexLess(KeyString(x), KeyString(y))

\* a backward page of two of the three records of a space, the later
\* inserted of the two first
C7_Witness ==
  /\ ListedHead
  /\ last.options.pre
  /\ Cardinality(SpaceRecords(last.space)) = 3
  /\ Len(last.result.ok.results) = 2
  /\ last.result.ok.results[1].insertedAt.iso > last.result.ok.results[2].insertedAt.iso

\* the traversal visited every record of the space exactly once
VisitedAll ==
  /\ Len(last.visited) = Cardinality(SpaceRecords(last.space))
  /\ \A x \in SpaceRecords(last.space) :
       \E i \in 1..Len(last.visited) : KeyString(last.visited[i]) = x.multihash

\* C8: with no write under way, list called again and again with the
\* cursor of the page before, until a page returns no cursor, returns every
\* page, repeats no record and has visited every record of the space exactly
\* once when it ends, forward and backward, for every page size.
C8_PagingVisitsAll ==
  (last.op = "list" /\ last.whole /\ last.answered) =>
    /\ last.result.tag = "ok"
    /\ \A i, j \in 1..Len(last.visited) :
         i < j => KeyString(last.visited[i]) # KeyString(last.visited[j])
    /\ last.result.ok.cursor = Undefined => VisitedAll

\* the least and the greatest key string of a non-empty page
LeastKey(r) ==
  CHOOSE k \in {KeyString(r[i]) : i \in 1..Len(r)} :
    \A i \in 1..Len(r) : k = KeyString(r[i]) \/ LexLess(k, KeyString(r[i]))

GreatestKey(r) ==
  CHOOSE k \in {KeyString(r[i]) : i \in 1..Len(r)} :
    \A i \in 1..Len(r) : k = KeyString(r[i]) \/ LexLess(KeyString(r[i]), k)

\* C9 as claimed: every non-empty list response has before = the key of the
\* first and after = the key of the last record of the page in ascending
\* order, in both directions, whether or not more pages remain.
C9_BothBoundaries ==
  (last.op = "list" /\ last.result.tag = "ok" /\ last.result.ok.results # <<>>) =>
    /\ last.result.ok.before = LeastKey(last.result.ok.results)
    /\ last.result.ok.after = GreatestKey(last.result.ok.results)

\* C9 as amended: a non-empty list response has the boundary on the side the
\* listing started from (before when forward, after when pre); the boundary
\* on the far side (after when forward, before when pre) is there when the
\* page holds as many records as the page size, and is undefined otherwise.
C9_BoundariesOfFullPage ==
  (last.op = "list" /\ last.result.tag = "ok" /\ last.result.ok.results # <<>>) =>
    LET ok == last.result.ok
        full == Len(ok.results) = LimitOf(last.options)
        least == LeastKey(ok.results)
        greatest == GreatestKey(ok.results)
    IN  IF last.options.pre
        THEN /\ ok.after = greatest
             /\ ok.before = IF full THEN least ELSE Undefined
        ELSE /\ ok.before = least
             /\ ok.after = IF full THEN greatest ELSE Undefined

\* a backward page of two records that carries both boundaries
C9_Witness ==
  /\ last.op = "list"
  /\ last.result.tag = "ok"
  /\ last.options.pre
  /\ Len(last.result.ok.results) = 2
  /\ last.result.ok.before = KeyString(last.result.ok.results[1])
  /\ last.result.ok.after = KeyString(last.result.ok.results[2])
  /\ last.result.ok.before # last.result.ok.after


(***************************************************************************)
(* Properties of the agent message index                                   *)
(***************************************************************************)
\* the messages that hold an invocation and a receipt of task
MessagesOf(task) ==
  {m \in AgentMessages : /\ \E i \in m.data.invocations : i.task = task
                         /\ \E r \in m.data.receipts : r.task = task}

\* the view of the invocation or the receipt of task in message m
ExpectedView(kind, task, m) ==
  LET block == CHOOSE b \in BlocksOf(m.data) : b.is = kind /\ b.task = task
  IN  [root |-> block.cid, block |-> block, archive |-> m.data.root.cid]

\* a lookup of task has returned, every request of it was answered by the
\* service, and it began after the write of message m had returned ok
LookedUpAfterWrite(m) ==
  /\ lk.pc = "done"
  /\ lk.answered
  /\ m \in MessagesOf(lk.task)
  /\ m.data.root.cid \in lk.after

\* C10: after write has succeeded for a message that contains an invocation
\* and a receipt of task t, getInvocation of t returns the invocation view and
\* getReceipt of t returns the receipt view, each reconstructed from the
\* archive stored by that write.
C10_WrittenIsLookedUp ==
  \A m \in AgentMessages :
    LookedUpAfterWrite(m) => lk.result = Ok(ExpectedView(lk.kind, lk.task, m))

\* the lookup returned the view of what it was asked for
Returned(kind) ==
  /\ lk.result.tag = "ok"
  /\ lk.result.ok.block.is = kind
  /\ lk.result.ok.block.task = lk.task

\* C11: a receipt lookup consults only the .out entries and an invocation
\* lookup only the .in entries: getReceipt of t returns the receipt whenever
\* an .out entry of t and its archive are stored, also when t has no .in
\* entry, and getInvocation of t returns the invocation whenever an .in
\* entry of t and its archive are stored, also when t has no .out entry.
C11_DirectionOnly ==
  (lk.pc = "done" /\ lk.answered) =>
    /\ (lk.kind = "receipt" /\ lk.had.out) => Returned("receipt")
    /\ (lk.kind = "invocation" /\ lk.had.in) => Returned("invocation")

\* the suffix of the entries of a direction
SuffixOf(kind) == IF kind = "invocation" THEN <<".", "i", "n">> ELSE <<".", "o", "u", "t">>

\* the index holds a key that begins with task/ and ends with the suffix
KeyStored(task, suffix) ==
  \E o \in objects :
    /\ o.Bucket = store.buckets.index.name
    /\ StartsWith(o.Key, task \o <<"/">>)
    /\ EndsWith(o.Key, suffix)

\* C12: getInvocation and getReceipt of a task return RecordNotFound whenever
\* no stored index key begins with the task and ends with the suffix of the
\* direction asked for, also when the task has entries of the other direction.
C12_NeverWritten ==
  (lk.pc = "done" /\ lk.answered /\ ~KeyStored(lk.task, SuffixOf(lk.kind)))
    => lk.result = Error("RecordNotFound")

(***************************************************************************)
(* Properties of resolve                                                   *)
(***************************************************************************)
\* the index keys that match the resolved query, in the order listed
Matching ==
  LET keys == {o.Key : o \in {x \in objects : /\ x.Bucket = store.buckets.index.name
                                               /\ StartsWith(x.Key, lk.task \o <<"/">>)
                                               /\ EndsWith(x.Key, SuffixOf(lk.kind))}}
  IN  SortKeys(keys)

\* the key encodes a root counterpart: it is of the current scheme
HasRoot(key) == \E i \in 1..Len(key) : key[i] = "@"

\* C13: of the matching index keys in listing order, resolve returns the
\* first that encodes a root counterpart, and the first of all when none
\* encodes one.
C13_FirstWithRootElseFirst ==
  (lk.pc = "resolved" /\ lk.outcome = "ok" /\ Matching # <<>>) =>
    LET m == Matching
        rooted == {i \in 1..Len(m) : HasRoot(m[i])}
        pick == IF rooted = {} THEN 1
                ELSE CHOOSE i \in rooted : \A j \in rooted : i <= j
    IN  lk.result = Ok(toIndexEntry(m[pick]))

\* a resolve that passed over two legacy keys and took the first of two
\* keys of the current scheme
C13_Witness ==
  /\ lk.pc = "resolved"
  /\ lk.result.tag = "ok"
  /\ Len(Matching) = 4
  /\ ~HasRoot(Matching[1])
  /\ ~HasRoot(Matching[2])
  /\ lk.result.ok = toIndexEntry(Matching[3])
  /\ HasRoot(Matching[4])

(***************************************************************************)
(* Properties of the key layout and of write                               *)
(***************************************************************************)
\* the pseudo symlinks of the index
IndexKeys == {o.Key : o \in {x \in objects : x.Bucket = store.buckets.index.name
                                              /\ x.Body = None}}

Suffixes == {<<".", "i", "n">>, <<".", "o", "u", "t">>}

\* C14: decoding a key task/id@message.in or .out that write emitted yields
\* root = id and at = message exactly, and decoding a legacy key
\* id/message.in or .out yields no root and at = message.
C14_KeyRoundTrip ==
  \A key \in IndexKeys :
    LET entry == toIndexEntry(key)
    IN  IF HasRoot(key)
        THEN /\ entry.root \in LinkTexts
             /\ entry.at \in LinkTexts
             /\ \E task \in LinkTexts, suffix \in Suffixes :
                  key = task \o <<"/">> \o entry.root \o <<"@">> \o entry.at \o suffix
        ELSE /\ entry.root = Undefined
             /\ entry.at \in LinkTexts
             /\ \E id \in LinkTexts, suffix \in Suffixes :
                  key = id \o <<"/">> \o entry.at \o suffix

\* the objects under the keys that name message id as their archive
ObjectsOf(id) ==
  {o \in objects :
     \/ o.Bucket = store.buckets.message.name /\ o.Key = id \o <<"/">> \o id
     \/ /\ o.Bucket = store.buckets.index.name
        /\ o.Body = None
        /\ toIndexEntry(o.Key).at = id}

\* what one successful write of message m leaves in the store: the archive
\* under id/id, a CAR of the message, and one pseudo symlink per invocation
\* and per receipt
IsArchiveOf(o, m) ==
  /\ o.Bucket = store.buckets.message.name
  /\ o.Key = m.data.root.cid \o <<"/">> \o m.data.root.cid
  /\ o.Body # None
  /\ CarDecode(o.Body) = Ok([roots |-> <<m.data.root.cid>>, blocks |-> BlocksOf(m.data),
                             of |-> m.data.root.cid])

LinkKeysOf(m) ==
  {i.task \o <<"/">> \o i.cid \o <<"@">> \o m.data.root.cid \o <<".", "i", "n">> :
     i \in m.data.invocations}
  \cup
  {r.task \o <<"/">> \o r.cid \o <<"@">> \o m.data.root.cid \o <<".", "o", "u", "t">> :
     r \in m.data.receipts}

IsLinkOf(o, m) ==
  /\ o.Bucket = store.buckets.index.name
  /\ o.Key \in LinkKeysOf(m)
  /\ o.Body = None

WrittenOnce(m) ==
  LET mine == ObjectsOf(m.data.root.cid)
  IN  /\ \A o \in mine : IsArchiveOf(o, m) \/ IsLinkOf(o, m)
      /\ Cardinality({o \in mine : IsArchiveOf(o, m)}) = 1
      /\ {o.Key : o \in {x \in mine : IsLinkOf(x, m)}} = LinkKeysOf(m)

\* C15: write is idempotent under retry: a write of a message written
\* before, or of one whose earlier write failed part-way, returns ok when its
\* own sends succeed, and the store then holds exactly the archive and the
\* index keys of one successful write of the message; no key ever holds two
\* objects, and what a failed attempt left is part of what the write leaves.
C15_WriteIdempotent ==
  /\ \A o, q \in objects : (o.Bucket = q.Bucket /\ o.Key = q.Key) => o = q
  /\ \A m \in AgentMessages :
       \A o \in ObjectsOf(m.data.root.cid) : IsArchiveOf(o, m) \/ IsLinkOf(o, m)
  /\ (wr.pc = "idle" /\ wr.log # <<>>) =>
       /\ (\A n \in DOMAIN wr.outcomes : wr.outcomes[n] = "ok") => wr.result.tag = "ok"
       /\ wr.result.tag = "ok" => WrittenOnce(wr.message)

\* a write that returned ok after the write of the same message had failed
\* part-way
C15_Witness ==
  /\ wr.pc = "idle"
  /\ Len(wr.log) = 2
  /\ wr.log[1].id = wr.log[2].id
  /\ wr.log[1].tag = "error"
  /\ wr.log[2].tag = "ok"
  /\ Cardinality(DOMAIN wr.outcomes) = 3
  /\ WrittenOnce(wr.message)

\* the objects the sends of the last write put
PutBy(n) ==
  LET cmd == assert(store, wr.message)[n]
  IN  [Bucket |-> cmd.Bucket, Key |-> cmd.Key, Body |-> cmd.Body]

\* C16: write returns {ok: {}} if and only if every put it sent succeeded;
\* if any put fails it returns an error result, it neither raises nor
\* reports success, and the puts that succeeded stay in the store.
C16_OkIffAllPutsOk ==
  /\ (wr.pc = "sending") =>
       /\ (\E n \in DOMAIN wr.outcomes : wr.outcomes[n] = "fail")
            <=> (wr.result # None /\ wr.result.tag = "error")
       /\ wr.result = None \/ wr.result.tag = "error"
  /\ (wr.pc = "idle" /\ wr.log # <<>>) =>
       /\ wr.result.tag \in {"ok", "error"}
       /\ wr.result.tag = "ok" <=> \A n \in DOMAIN wr.outcomes : wr.outcomes[n] = "ok"
       /\ wr.log[Len(wr.log)].tag = wr.result.tag
       /\ \A n \in DOMAIN wr.outcomes : wr.outcomes[n] = "ok" => PutBy(n) \in objects

\* a write that returned an error after its first and last put had succeeded
C16_Witness ==
  /\ wr.pc = "idle"
  /\ wr.log # <<>>
  /\ wr.outcomes = <<"ok", "fail", "ok">>
  /\ wr.result.tag = "error"
  /\ PutBy(1) \in objects
  /\ PutBy(3) \in objects
  /\ PutBy(2) \notin objects

(***************************************************************************)
(* Properties of the redirect handler                                      *)
(***************************************************************************)
\* the request is one of a v2 piece whose equivalence set is being probed
\* or has been probed
Probing == rq.pc \in {"probing", "done"} /\ rq.cids # <<>>

\* the candidates the bucket holds the content of, by their place in the set
Hits == {i \in 1..Len(rq.cids) : rq.cids[i] \in bucket}

\* C17: the candidates of the equivalence set are probed one at a time in
\* the set's iteration order; the response is a 302 to the URL of the first
\* candidate in that order that resolves, and no candidate after the first
\* hit is probed.
C17_FirstHitWins ==
  Probing =>
    /\ Len(rq.probed) <= Len(rq.cids)
    /\ \A i \in 1..Len(rq.probed) : rq.probed[i] = rq.cids[i]
    /\ \A i \in 1..Len(rq.probed) : i \in Hits => i = Len(rq.probed)
    /\ (rq.pc = "done" /\ Hits # {}) =>
         LET first == CHOOSE i \in Hits : \A j \in Hits : i <= j
         IN  /\ rq.response = redirectTo(SignedUrl(rq.cids[first], rq.expiresIn))
             /\ Len(rq.probed) = first

\* a 302 to the second of three candidates, the third stored as well and
\* not probed
C17_Witness ==
  /\ rq.pc = "done"
  /\ Len(rq.cids) = 3
  /\ Hits = {2, 3}
  /\ Len(rq.probed) = 2
  /\ rq.response.statusCode = "302"
  /\ rq.response.headers.Location.key = rq.cids[2].text

\* C18: a v2 piece whose equivalence set is not empty and none of whose
\* candidates is in storage gets the "no content found" response, which
\* differs from the response for an empty equivalence set; for the empty set
\* storage is never probed.
C18_NoContentDistinct ==
  (rq.pc = "done" /\ rq.cid # None /\ rq.cid.kind = "pieceV2") =>
    LET cids == findEquivalentCids(rq.cid)
    IN  /\ rq.finds = 1
        /\ (cids # <<>> /\ \A i \in 1..Len(cids) : cids[i] \notin bucket) =>
             /\ rq.response = Response("404", "No content found for Piece CID")
             /\ rq.response # Response("404", "No equivalent CID for Piece CID found")
             /\ rq.probed = cids
        /\ cids = <<>> =>
             /\ rq.response = Response("404", "No equivalent CID for Piece CID found")
             /\ rq.probed = <<>>

\* a piece of three candidates, none stored, all probed
C18_Witness ==
  /\ rq.pc = "done"
  /\ rq.cid = PieceV2A
  /\ Len(rq.probed) = 3
  /\ bucket \cap {PieceV2A, RawA, CarA} = {}
  /\ bucket # {}
  /\ rq.response.body = "No content found for Piece CID"

\* C19: a request whose identifier is a v1 piece CID is answered with 415
\* and is never resolved: neither findEquivalentCids nor locateContent is
\* called for it, and it never gets a 302.
C19_V1Unsupported ==
  (rq.pc # "idle" /\ rq.cid # None /\ rq.cid.kind = "pieceV1") =>
    /\ rq.pc = "done"
    /\ rq.response.statusCode = "415"
    /\ rq.finds = 0
    /\ rq.probed = <<>>

\* a 415 for a v1 piece whose content the bucket holds
C19_Witness ==
  /\ rq.pc = "done"
  /\ rq.cid = PieceV1
  /\ PieceV1 \in bucket
  /\ rq.response = UnsupportedV1

\* C20: a request for a well-formed identifier whose type is not recognized,
\* neither a CAR or raw content CID nor a piece CID, gets status 415.
C20_UnrecognizedIs415 ==
  (rq.pc = "done" /\ rq.cid # None
     /\ rq.cid.kind \notin {"pieceV2", "pieceV1", "car", "raw"}) =>
    rq.response.statusCode = "415"

\* the request of redirectGet is malformed: its identifier or its query
\* parameters do not parse
Malformed(request) ==
  \/ CidParse(request.pathParameters.cid).tag = "throw"
  \/ parseQueryStringParameters(request.queryStringParameters).tag = "throw"

\* C21: /{cid} for a content CID returns 302 with a Location exactly when
\* the content location resolver returns a URL for it and 404 when it
\* returns none; a malformed identifier or query gets 400 without a probe of
\* storage; only a 302 carries a Location header.
C21_ContentRedirect ==
  rq.pc = "done" =>
    /\ (rq.response.statusCode = "400") <=> Malformed(rq.request)
    /\ Malformed(rq.request) => (rq.probed = <<>> /\ rq.finds = 0)
    /\ (rq.response.headers # None) <=> (rq.response.statusCode = "302")
    /\ rq.response.statusCode = "302" => rq.response.headers.Location # None
    /\ (rq.cid # None /\ rq.cid.kind \in {"car", "raw"}) =>
         LET url == locateContent(bucket, rq.cid, rq.expiresIn)
         IN  /\ rq.probed = <<rq.cid>>
             /\ (url # None) <=> (rq.response.statusCode = "302")
             /\ url # None => rq.response = redirectTo(url)
             /\ url = None => rq.response.statusCode = "404"

\* a 302 to the signed URL of a stored CAR, with the lifetime asked for
C21_Witness ==
  /\ rq.pc = "done"
  /\ rq.cid = CarA
  /\ CarA \in bucket
  /\ rq.response.statusCode = "302"
  /\ rq.response.headers.Location = SignedUrl(CarA, "60")

\* C22: /raw/{key} returns 302 with a Location when the signer yields a
\* signed URL for the key in the selected bucket and 404 when it yields
\* none; a missing key gets 400 and the signer is not called.
C22_KeyRedirect ==
  rq.pc = "done" =>
    LET selected == IF rq.request.queryStringParameters.bucketName = ""
                    THEN BucketName ELSE rq.request.queryStringParameters.bucketName
        key == rq.request.pathParameters.key
        object == [Bucket |-> selected, Key |-> key]
    IN  /\ key = "" => (rq.response.statusCode = "400" /\ rq.signed = <<>>)
        /\ rq.response.statusCode = "400" => rq.signed = <<>>
        /\ rq.response.statusCode # "400" =>
             /\ rq.signed = <<object>>
             /\ object \in rawKeys =>
                  /\ rq.response.statusCode = "302"
                  /\ rq.response.headers.Location.key = key
                  /\ rq.response.headers.Location.bucket = selected
             /\ object \notin rawKeys =>
                  (rq.response.statusCode = "404" /\ rq.response.headers = None)

\* a 302 for a key of the named bucket that the deployment's bucket lacks
C22_Witness ==
  /\ rq.pc = "done"
  /\ rq.key # ""
  /\ rq.bucketName = OtherBucket
  /\ [Bucket |-> OtherBucket, Key |-> rq.key] \in rawKeys
  /\ [Bucket |-> BucketName, Key |-> rq.key] \notin rawKeys
  /\ rq.response.statusCode = "302"

(***************************************************************************)
(* Properties of the results of the operations                             *)
(***************************************************************************)
\* C23: every operation of the allocation ledger returns a tagged ok or
\* error result for every outcome of the backend, a failure that is neither
\* absence nor conflict included; none raises.
C23_NeverRaises ==
  last # NoCall => last.result.tag \in {"ok", "error"}

\* C24: exists never propagates a backend error: when the backend fails it
\* returns ok false; it returns ok true only when the key held a record at
\* the time of the read.
C24_ExistsBestEffort ==
  last.op = "exists" =>
    /\ last.result \in {Ok(TRUE), Ok(FALSE)}
    /\ last.outcome = "fail" => last.result = Ok(FALSE)
    /\ last.result = Ok(TRUE) => (last.held # None /\ Stored(last.key) # None)

\* exists answered false for a stored record because the backend failed
C24_Witness ==
  /\ last.op = "exists"
  /\ last.outcome = "fail"
  /\ last.held # None
  /\ Stored(last.key) # None
  /\ last.result = Ok(FALSE)

\* C25: remove returns StorageOperationFailed for every backend failure
\* other than the failed existence condition, a delete response without the
\* old record included; it reports no such failure as size 0 or as success,
\* and it never raises.
C25_RemoveFailureReported ==
  last.op = "remove" =>
    LET failed == last.outcome = "fail" \/ (last.outcome = "noattrs" /\ last.held # None)
    IN  /\ last.result.tag \in {"ok", "error"}
        /\ failed <=> (last.result = Error("StorageOperationFailed"))
        /\ ~failed => last.result.tag = "ok"

\* a delete that took the record and answered without it
C25_Witness ==
  /\ last.op = "remove"
  /\ last.outcome = "noattrs"
  /\ last.held # None
  /\ last.changed
  /\ last.result = Error("StorageOperationFailed")

(***************************************************************************)
(* Properties of the space metrics                                         *)
(***************************************************************************)
\* the stored items of the consumer's store/add-size-total counter
CounterItems(consumer) ==
  {Unmarshall(i) : i \in {j \in counters : j.consumer.S = consumer /\ j.name.S = AddSizeTotal}}

\* C26: getAllocated(consumer) returns the stored value of the consumer's
\* store/add-size-total counter, and 0, not an error, for every consumer
\* that has no such counter item.
C26_AllocatedOrZero ==
  (asked # NotAsked /\ asked.outcome = "ok") =>
    /\ asked.result.tag = "ok"
    /\ \A item \in CounterItems(asked.consumer) : asked.result.ok = item.value
    /\ CounterItems(asked.consumer) = {} => asked.result.ok = 0

\* 0 for a consumer whose only counter is another one, at another value
C26_Witness ==
  /\ asked # NotAsked
  /\ asked.outcome = "ok"
  /\ CounterItems(asked.consumer) = {}
  /\ \E i \in counters : i.consumer.S = asked.consumer /\ i.value.N = 5
  /\ asked.result = Ok(0)

(***************************************************************************)
(* Properties of the fetch and of the write path of the agent index        *)
(***************************************************************************)
\* C27: a lookup whose archive read finds no object at message/message, or
\* gets a response without body, returns RecordNotFound; one whose archive
\* read or index listing fails with another backend error returns
\* StorageOperationFailed; a listing that fails with 404 is RecordNotFound.
C27_FetchErrors ==
  [][(lk.pc \in {"resolve", "read", "resolve2", "read2"} /\ lk'.pc = "done") =>
       LET listing == lk.pc \in {"resolve", "resolve2"}
           absent == S3Lookup(objects, ReadBucket(store.buckets),
                              lk.index.at \o <<"/">> \o lk.index.at) = None
       IN  /\ lk'.outcome = "fail" => lk'.result = Error("StorageOperationFailed")
           /\ (listing /\ lk'.outcome = "404") => lk'.result = Error("RecordNotFound")
           /\ (~listing /\ lk'.outcome # "fail" /\ (absent \/ lk'.outcome = "nobody"))
                => lk'.result = Error("RecordNotFound")]_vars

\* a getReceipt that resolved the receipt entry and got a response without
\* body for an archive that is stored
C27_Witness ==
  /\ lk.pc = "done"
  /\ lk.step = "read2"
  /\ lk.outcome = "nobody"
  /\ S3Lookup(objects, ReadBucket(store.buckets), lk.index.at \o <<"/">> \o lk.index.at) # None
  /\ lk.result = Error("RecordNotFound")

\* the entries of the index of a message that hold an invocation, a receipt
InvocationEntries(m) == {n \in DOMAIN m.index : m.index[n].invocation # None}
ReceiptEntries(m) == {n \in DOMAIN m.index : m.index[n].receipt # None}

\* the commands among cmds that put to the key of the bucket
PutsTo(cmds, bucketName, key) ==
  {n \in DOMAIN cmds : cmds[n].Bucket = bucketName /\ cmds[n].Key = key}

C29_DisjointKeys ==
  /\ wr.pc = "sending" =>
       \A i, j \in DOMAIN wr.commands :
         (wr.commands[i].Bucket = wr.commands[j].Bucket
            /\ wr.commands[i].Key = wr.commands[j].Key) => i = j
  /\ (wr.pc = "idle" /\ wr.log # <<>> /\ wr.result.tag = "ok") =>
       ObjectsOf(wr.message.data.root.cid) = {PutBy(n) : n \in DOMAIN wr.outcomes}

\* three sends of a message to one bucket, the archive the second to settle
C29_Witness ==
  /\ wr.pc = "sending"
  /\ store = AgentStoreOneBucket
  /\ Len(wr.commands) = 3
  /\ wr.pending = {1}
  /\ wr.result = None
  /\ PutBy(2) \in objects
  /\ PutBy(1) \notin objects

(***************************************************************************)
(* Properties of the size of a page                                        *)
(***************************************************************************)
\* C30: list(space, options) returns at most options.size records, at most
\* 20 when no size is given, all of them records of the requested space, and
\* the size field of the response is the number of records returned.
C30_PageBounded ==
  (last.op = "list" /\ last.result.tag = "ok") =>
    LET ok == last.result.ok
    IN  /\ last.options.size # 0 => Len(ok.results) <= last.options.size
        /\ last.options.size = 0 => Len(ok.results) <= 20
        /\ ok.size = Len(ok.results)
        /\ \A n \in 1..Len(ok.results) :
             \E x \in SpaceRecords(last.space) :
               /\ x.multihash = KeyString(ok.results[n])
               /\ x.size = ok.results[n].blob.size
               /\ x.insertedAt = ok.results[n].insertedAt

\* a page of 20 of the 22 records of a space, listed without a size
C30_Witness ==
  /\ last.op = "list"
  /\ last.result.tag = "ok"
  /\ last.options.size = 0
  /\ last.options.cursor = Undefined
  /\ Cardinality(SpaceRecords(last.space)) = 22
  /\ Len(last.result.ok.results) = 20
  /\ last.result.ok.size = 20

(***************************************************************************)
(* Properties of lookups that race with a write                            *)
(***************************************************************************)
\* C31: a lookup of task t that runs while a write is in progress, or after
\* one failed part-way, and that the service answers, returns either
\* RecordNotFound or the view of what it was asked for from the archive of
\* the message that holds it; it returns no view taken from another message
\* and it never raises.
C31_RacingLookup ==
  (lk.pc = "done" /\ lk.answered) =>
    \/ lk.result = Error("RecordNotFound")
    \/ Returned(lk.kind)

(***************************************************************************)
(* Properties of the histories of a key                                    *)
(***************************************************************************)
\* C32: in every history of insert and remove calls on one key, under any
\* interleaving, the inserts that return ok and the removes that delete the
\* record alternate, an insert first: an insert returns ok only when no
\* insert of the key has returned ok since the last remove that deleted its
\* record, and a remove deletes a record only when an insert of the key has
\* returned ok since the last remove that did.  held is the grant of the
\* last insert that returned ok, None from a deleting remove on.
C32_InsertRemoveAlternate ==
  /\ (last.op = "insert" /\ last.result.tag = "ok") => (last.held = None /\ last.changed)
  /\ (last.op = "insert" /\ last.changed) => last.result.tag = "ok"
  /\ (last.op = "remove" /\ last.changed) => last.held # None
  /\ \A k \in LedgerKeys :
       /\ epochOk[k] \in {0, 1}
       /\ granted[k] = None <=> epochOk[k] = 0
       /\ granted[k] = None <=> Stored(k) = None

\* the second insert of a key to return ok, after it raced with the remove
\* that deleted the record of the first
C32_Witness ==
  /\ last.op = "insert"
  /\ last.result.tag = "ok"
  /\ last.raced
  /\ last.held = None
  /\ allocated[last.key] > last.input.blob.size
  /\ granted[last.key] # None

====
